---- MODULE Spec2Model ----
(***************************************************************************)
(* Model of the mesh-chat daemon core: Daemon (daemon.h / daemon.cpp),     *)
(* Loopback_transport (loopback_transport.cpp) and the destroy path of     *)
(* the C wrapper (meshcore_impl.cpp).                                      *)
(*                                                                         *)
(* Threads: caller threads 1..NumCallers invoke the public operations;     *)
(* every successful start() creates one worker thread running              *)
(* worker_loop.  A std::lock_guard section that neither blocks nor calls   *)
(* out is one step taken while mutex_ is free; start() keeps mutex_ over   *)
(* two steps because it calls on_status while holding it.                  *)
(***************************************************************************)
EXTENDS Integers, Sequences, FiniteSets, TLC

\* ------------------------------------------------------------------------
\* Bounds
\* ------------------------------------------------------------------------
NumCallers == 2   \* caller (non-worker) threads
MaxCalls   == 4   \* calls of public operations made by the caller threads
MaxClock   == 3   \* readings of the system clock the model tells apart

NoThread == 0

Callers   == 1 .. NumCallers
WorkerIds == 1 .. MaxCalls
PeerIds   == {1}
Uids      == {"u"}
Payloads  == {"m"}

\* Identity of a caller thread as owner of mutex_
CallerThread(t) == t

\* enum class EventType
EventType == {"PeerConnected", "PeerDisconnected", "DataReceived", "SendMessage", "Shutdown"}

\* struct Event; tag is the identity of the object (the n-th event ever built)
Event(ty, p, u, d, ts, tag) ==
    [type |-> ty, peer_id |-> p, peer_uid |-> u, data |-> d, timestamp |-> ts, tag |-> tag]

NoEvent == Event("none", 0, "", "", 0, 0)

\* The events a producer builds from the peer ids ids, the uids us and the
\* timestamps ts.
EventsOf(ids, us, ts) ==
    {Event("PeerConnected", p, u, "", s, 0) : p \in ids, u \in us, s \in ts}
    \cup {Event("PeerDisconnected", p, "", "", s, 0) : p \in ids, s \in ts}
    \cup {Event("DataReceived", p, "", d, s, 0) : p \in ids, d \in Payloads, s \in ts}
    \cup {Event("SendMessage", p, "", d, s, 0) : p \in ids, d \in Payloads, s \in ts}
    \cup {Event("Shutdown", 0, "", "", s, 0) : s \in ts}

\* The events the callers of this repository build (Event() leaves timestamp 0).
EventInputs == EventsOf(PeerIds, Uids, {0})

\* struct DaemonCallbacks: which std::function members are non-empty
DaemonCallbacks(m, s, p) == [on_message |-> m, on_status |-> s, on_peer |-> p]
NoCallbacks  == DaemonCallbacks(FALSE, FALSE, FALSE)
AllCallbacks == DaemonCallbacks(TRUE, TRUE, TRUE)
CallbackSets == {NoCallbacks, AllCallbacks}

\* Transport* values: nullptr or the Loopback_transport bound to this daemon
Transports == {"null", "loopback"}

\* struct PeerInfo
PeerInfo(p, u, at) == [peer_id |-> p, uid |-> u, connected |-> TRUE, connected_at |-> at]

\* #define MESHCORE_MAX_MESSAGE_SIZE 4096
MESHCORE_MAX_MESSAGE_SIZE == 4096

\* The byte strings of the model are named; MaxPayload is a string of
\* MESHCORE_MAX_MESSAGE_SIZE bytes and OverPayload one of a byte more, each
\* shorter one being a prefix of each longer one.
MaxPayload  == "m4096"
OverPayload == "m4097"
ByteStrings == {"", "m", MaxPayload, OverPayload}

\* std::string::size()
Size(d) ==
    CASE d = ""          -> 0
      [] d = "m"         -> 1
      [] d = MaxPayload  -> MESHCORE_MAX_MESSAGE_SIZE
      [] d = OverPayload -> MESHCORE_MAX_MESSAGE_SIZE + 1

\* std::string(message, len): the first len bytes at message
StdString(message, len) ==
    CHOOSE d \in ByteStrings : Size(d) = len /\ len <= Size(message.str)

\* A C string argument: NULL, or a pointer to the bytes str
NullPtr == [null |-> TRUE, str |-> ""]
CStr(s) == [null |-> FALSE, str |-> s]

\* A call of the C API made by a caller thread: the arguments, what
\* is_running() returned to it, the tag of the event it built (0 = none), and
\* what it returned (code or count).
ApiCall(op, core, p, uid, message, len) ==
    [op |-> op, core |-> core, peer_id |-> p, uid |-> uid, message |-> message, len |-> len,
     ran |-> FALSE, tag |-> 0, code |-> "none", count |-> 0]

NoCall == ApiCall("none", FALSE, 0, NullPtr, NullPtr, 0)

\* What the callers of one run pass: to a send function the handle (valid or
\* NULL), uid, message and len; in the events they build the peer ids
\* peer_ids, the uids uids and the timestamps stamps.  drift is what the
\* system clock advances at most between two readings, reconfigure whether
\* the owner also changes the transport and the callbacks of a started daemon,
\* cbs what the host passes to meshcore_set_callbacks.
SendArg(core, uid, message, len) ==
    [core |-> core, uid |-> uid, message |-> message, len |-> len,
     peer_ids |-> PeerIds, uids |-> Uids, stamps |-> {0}, drift |-> 0, reconfigure |-> FALSE,
     cbs |-> {[null |-> FALSE, on_message |-> TRUE, on_status |-> TRUE, on_peer |-> TRUE]}]

PlainArgs == SendArg(TRUE, CStr("u"), CStr("m"), 1)

\* The arguments around each check of the send functions
SendArgs ==
    {PlainArgs,
     SendArg(TRUE, CStr("u"), CStr("m"), 0),
     SendArg(TRUE, CStr("u"), NullPtr, 1),
     SendArg(TRUE, CStr("u"), CStr(MaxPayload), MESHCORE_MAX_MESSAGE_SIZE),
     SendArg(TRUE, CStr("u"), CStr(OverPayload), MESHCORE_MAX_MESSAGE_SIZE + 1),
     SendArg(TRUE, NullPtr, CStr("m"), 1),
     SendArg(FALSE, CStr("u"), CStr("m"), 1)}

\* The argument of meshcore_set_callbacks: NULL, or a struct whose members
\* are set or null
CbNull == [null |-> TRUE, on_message |-> FALSE, on_status |-> FALSE, on_peer |-> FALSE]
CbStruct(m, s, p) == [null |-> FALSE, on_message |-> m, on_status |-> s, on_peer |-> p]

\* struct MeshCore: callbacks (which members are non-null), has_callbacks;
\* adapted tells that callbacks_ of the daemon holds the lambdas built by
\* setup_daemon_callbacks.
MeshCore(cb, has, ad) == [callbacks |-> cb, has_callbacks |-> has, adapted |-> ad]

VARIABLES
    running_,        \* Daemon::running_
    busy_,           \* Daemon::busy_
    mutex_,          \* owner of Daemon::mutex_ (NoThread when free)
    worker_thread_,  \* Daemon::worker_thread_: worker id while joinable, else NoThread
    event_queue_,    \* Daemon::event_queue_
    transport_,      \* Daemon::transport_
    callbacks_,      \* Daemon::callbacks_
    peers_,          \* Daemon::peers_: function peer_id -> PeerInfo
    clock,           \* the last reading of std::chrono::system_clock
    pc,              \* position of each caller thread
    frame,           \* what called stop() on that thread: "none", "dtor", "mc_destroy"
    call,            \* the C API call each caller thread is in: arguments and result
    wpc,             \* position of each worker thread ("none" = not created)
    wevent,          \* worker_loop local: Event event
    wuid,            \* handler local: std::string uid
    wtransport,      \* send_to_peer local: Transport* t
    joined,          \* workers whose std::thread::join() has returned
    aborted,         \* std::terminate() has been called
    destroyed,       \* the Daemon object has been released
    closing,         \* the destructor has been entered
    ntags,           \* events built so far
    echoed,          \* history: the events built by Loopback_transport::send, see Echo
    accepted,        \* history: events appended to event_queue_, in order
    dispatched,      \* history: events popped by worker_loop, in order
    reg_log,         \* history: the registry as it was when each of them was popped
    dropped,         \* history: the events enqueue_event refused
    stale,           \* history: the events that were queued when stop() cleared running_
    handler_calls,   \* history: number of handle_* invocations
    status_log,      \* history: codes passed to on_status
    peer_log,        \* history: arguments passed to on_peer
    msg_log,         \* history: arguments passed to on_message
    calls_left,      \* calls the caller threads may still make
    args,            \* what the callers pass in this run, see SendArg
    stop_seen,       \* history: workers that existed when the caller's stop() took mutex_
    meshcore,        \* struct MeshCore: callbacks, has_callbacks (and what callbacks_ holds)
    host,            \* history: the host functions invoked, and the struct last registered
    tset,            \* history: the transport last passed to set_transport, the sends begun since
    peers_mutex_     \* owner of Daemon::peers_mutex_ (NoThread when free)

daemon_vars  == <<running_, busy_, mutex_, worker_thread_, event_queue_, transport_, callbacks_, peers_, clock>>
thread_vars  == <<pc, frame, call, wpc, wevent, wuid, wtransport, joined, aborted, destroyed, closing>>
history_vars == <<calls_left, ntags, echoed, accepted, dispatched, reg_log, dropped, stale, handler_calls, status_log, peer_log, msg_log, stop_seen>>
vars == <<daemon_vars, thread_vars, history_vars, args, meshcore, host, tset, peers_mutex_>>

\* Daemon::Daemon(): running_(false), busy_(false), transport_(nullptr);
\* the callers go on to make at most calls calls and pass a to the send
\* functions.
Constructed(calls, a) ==
    /\ calls_left = calls
    /\ args = a
    /\ running_ = FALSE
    /\ busy_ = FALSE
    /\ mutex_ = NoThread
    /\ worker_thread_ = NoThread
    /\ event_queue_ = << >>
    /\ transport_ = "null"
    /\ callbacks_ = NoCallbacks
    /\ peers_ = << >>
    /\ clock = 1
    /\ pc = [t \in Callers |-> "idle"]
    /\ frame = [t \in Callers |-> "none"]
    /\ call = [t \in Callers |-> NoCall]
    /\ wpc = [w \in WorkerIds |-> "none"]
    /\ wevent = [w \in WorkerIds |-> NoEvent]
    /\ wuid = [w \in WorkerIds |-> ""]
    /\ wtransport = [w \in WorkerIds |-> "null"]
    /\ joined = {}
    /\ aborted = FALSE
    /\ destroyed = FALSE
    /\ closing = FALSE
    /\ ntags = 0
    /\ echoed = {}
    /\ accepted = << >>
    /\ dispatched = << >>
    /\ reg_log = << >>
    /\ dropped = {}
    /\ stale = {}
    /\ handler_calls = 0
    /\ status_log = << >>
    /\ peer_log = << >>
    /\ msg_log = << >>
    /\ stop_seen = [t \in Callers |-> {}]
    /\ meshcore = MeshCore(NoCallbacks, FALSE, FALSE)
    /\ host = [log |-> << >>, last |-> CbNull]
    /\ tset = [last |-> "null", since |-> {}]
    /\ peers_mutex_ = NoThread

\* The callers send a one-byte message to the uid "u" through a valid handle.
Init == Constructed(MaxCalls, PlainArgs)

\* The same object, with one more call.
InitWide == Constructed(MaxCalls + 1, PlainArgs)

\* The same object, the callers passing any of SendArgs.
InitApi == \E a \in SendArgs : Constructed(MaxCalls, a)

\* Peers whose id is 0 or not, under either of two uids
RegistryArgs == [PlainArgs EXCEPT !.peer_ids = {0, 1}, !.uids = {"u", "v"}]

\* The same object, the producers reporting the peers of RegistryArgs.
InitReg == Constructed(MaxCalls, RegistryArgs)

\* An owner that replaces the transport and the callbacks at any time
ReconfArgs ==
    [PlainArgs EXCEPT !.reconfigure = TRUE,
                      !.cbs = {CbNull, CbStruct(FALSE, FALSE, FALSE),
                               CbStruct(TRUE, FALSE, FALSE), CbStruct(TRUE, TRUE, TRUE)}]

\* The same object, with the owner of ReconfArgs.
InitReconf == Constructed(MaxCalls, ReconfArgs)

\* A timestamp a producer sets itself: a time before the epoch of the clock
ProducerStamp == -1

\* Producers that leave the timestamp 0 or set it, and a clock that advances
ClockArgs == [PlainArgs EXCEPT !.stamps = {0, ProducerStamp}, !.drift = 1]

\* The same object, with the producers and the clock of ClockArgs.
InitClock == Constructed(MaxCalls, ClockArgs)

\* The process is alive and the object exists.
Live == ~aborted /\ ~destroyed

Created == {w \in WorkerIds : wpc[w] # "none"}
Exited  == {w \in WorkerIds : wpc[w] = "w_done"}
Alive   == Created \ Exited

\* system_clock::now(): the clock does not go back, and the model follows it
\* up to MaxClock
ClockReads(c) == {n \in c .. MaxClock : n <= c + args.drift}

\* Daemon::current_timestamp_ms(): the reading this step takes
current_timestamp_ms == clock'

\* A caller thread begins a call of a public operation.
BeginCall == calls_left > 0 /\ calls_left' = calls_left - 1

\* ------------------------------------------------------------------------
\* Condition variable cv_
\* ------------------------------------------------------------------------
\* Threads blocked in cv_.wait
Waiting == {w \in WorkerIds : wpc[w] = "w_wait"}

\* cv_.notify_one(): wakes one waiting thread, if there is one
NotifyOne(wp) ==
    IF \E w \in WorkerIds : wp[w] = "w_wait"
    THEN \E w \in WorkerIds : wp[w] = "w_wait" /\ wpc' = [wp EXCEPT ![w] = "w_woken"]
    ELSE wpc' = wp

\* std::thread::joinable()
joinable(h) == h # NoThread

\* The lambda of setup_daemon_callbacks for one member:
\* if (core->callbacks.on_x) core->callbacks.on_x(...)
AdapterForwardsAlways(member) == TRUE

AdapterForwards(member) == member

\* The invocation of member x of callbacks cbs, if it is set: when it is a
\* lambda of setup_daemon_callbacks, the host function is called through it.
HostCall(h, c, cbs, x) ==
    IF cbs[x] /\ c.adapted /\ AdapterForwards(c.callbacks[x])
    THEN [h EXCEPT !.log = Append(@, x)]
    ELSE h

\* ------------------------------------------------------------------------
\* Daemon::start()
\* ------------------------------------------------------------------------
\* A meshcore_set_callbacks call is between its two steps.
Registering == \E t \in Callers : pc[t] = "mc_setcb"

\* std::lock_guard<std::mutex> lock(mutex_); an owner that configures before
\* the first start() has finished doing so.
StartLock(t) ==
    /\ BeginCall
    /\ Live /\ ~closing
    /\ pc[t] = "idle"
    /\ args.reconfigure \/ ~Registering
    /\ mutex_ = NoThread
    /\ running_ \/ Created # WorkerIds
    /\ mutex_' = CallerThread(t)
    /\ pc' = [pc EXCEPT ![t] = "start_locked"]
    /\ UNCHANGED <<running_, busy_, worker_thread_, event_queue_, transport_, callbacks_, peers_, clock, args, meshcore, host, tset>>
    /\ UNCHANGED <<frame, call, wpc, wevent, wuid, wtransport, joined, aborted, destroyed, closing>>
    /\ UNCHANGED <<ntags, echoed, accepted, dispatched, reg_log, dropped, stale, handler_calls, status_log, peer_log, msg_log, stop_seen>>
    /\ UNCHANGED peers_mutex_

\* if (running_) return;
StartNeverReturnsEarly(run) == FALSE

StartAlreadyRunning(run) == run

\* if (running_) return; running_ = true; worker_thread_ = std::thread(...)
\* The new thread exists as soon as the temporary is constructed; move
\* assignment to a joinable std::thread calls std::terminate().
StartBody(t) ==
    /\ Live
    /\ pc[t] = "start_locked"
    /\ IF StartAlreadyRunning(running_)
       THEN /\ mutex_' = NoThread
            /\ pc' = [pc EXCEPT ![t] = "idle"]
            /\ UNCHANGED <<running_, worker_thread_, wpc, aborted>>
       ELSE LET w == Cardinality(Created) + 1 IN
            /\ running_' = TRUE
            /\ wpc' = [wpc EXCEPT ![w] = "w_start"]
            /\ IF joinable(worker_thread_)
               THEN aborted' = TRUE /\ UNCHANGED worker_thread_
               ELSE worker_thread_' = w /\ UNCHANGED aborted
            /\ pc' = [pc EXCEPT ![t] = "start_status"]
            /\ UNCHANGED mutex_
    /\ UNCHANGED <<busy_, event_queue_, transport_, callbacks_, peers_, clock, args, meshcore, host, tset>>
    /\ UNCHANGED <<frame, call, wevent, wuid, wtransport, joined, destroyed, closing>>
    /\ UNCHANGED history_vars
    /\ UNCHANGED peers_mutex_

\* if (callbacks_.on_status) callbacks_.on_status(1, ...);  then the guard unlocks
StartStatus(t) ==
    /\ Live
    /\ pc[t] = "start_status"
    /\ status_log' = IF callbacks_.on_status THEN Append(status_log, 1) ELSE status_log
    /\ mutex_' = NoThread
    /\ pc' = [pc EXCEPT ![t] = "idle"]
    /\ host' = HostCall(host, meshcore, callbacks_, "on_status")
    /\ UNCHANGED <<running_, busy_, worker_thread_, event_queue_, transport_, callbacks_, peers_, clock, args, meshcore, tset>>
    /\ UNCHANGED <<frame, call, wpc, wevent, wuid, wtransport, joined, aborted, destroyed, closing>>
    /\ UNCHANGED <<calls_left, ntags, echoed, accepted, dispatched, reg_log, dropped, stale, handler_calls, peer_log, msg_log, stop_seen>>
    /\ UNCHANGED peers_mutex_

\* ------------------------------------------------------------------------
\* Daemon::stop()
\* ------------------------------------------------------------------------
\* Where a thread goes when its stop() returns.
StopReturnPc(f) ==
    CASE f = "mc_destroy" -> "call_stop"      \* delete core->daemon runs ~Daemon
      [] f = "dtor"       -> "dtor_release"
      [] OTHER            -> "idle"

StopReturnFrame(f) == IF f = "mc_destroy" THEN "dtor" ELSE f

\* std::lock_guard<std::mutex> lock(mutex_)
StopLock(t) ==
    /\ Live
    /\ \/ pc[t] = "idle" /\ ~closing /\ BeginCall
       \/ pc[t] = "call_stop" /\ UNCHANGED calls_left
    /\ mutex_ = NoThread
    /\ mutex_' = CallerThread(t)
    /\ pc' = [pc EXCEPT ![t] = "stop_locked"]
    /\ stop_seen' = [stop_seen EXCEPT ![t] = Created]
    /\ UNCHANGED <<running_, busy_, worker_thread_, event_queue_, transport_, callbacks_, peers_, clock, args, meshcore, host, tset>>
    /\ UNCHANGED <<frame, call, wpc, wevent, wuid, wtransport, joined, aborted, destroyed, closing>>
    /\ UNCHANGED <<ntags, echoed, accepted, dispatched, reg_log, dropped, stale, handler_calls, status_log, peer_log, msg_log>>
    /\ UNCHANGED peers_mutex_

\* if (!running_) return;
StopAlreadyStopped(run) == ~run

\* if (!running_) return; running_ = false;  then the guard unlocks
StopBody(t) ==
    /\ Live
    /\ pc[t] = "stop_locked"
    /\ mutex_' = NoThread
    /\ IF StopAlreadyStopped(running_)
       THEN /\ pc' = [pc EXCEPT ![t] = StopReturnPc(frame[t])]
            /\ frame' = [frame EXCEPT ![t] = StopReturnFrame(frame[t])]
            /\ UNCHANGED running_
       ELSE /\ running_' = FALSE
            /\ pc' = [pc EXCEPT ![t] = "stop_notify"]
            /\ UNCHANGED frame
    /\ stop_seen' = IF StopAlreadyStopped(running_) THEN [stop_seen EXCEPT ![t] = {}] ELSE stop_seen
    /\ stale' = IF StopAlreadyStopped(running_) THEN stale
                ELSE stale \cup {event_queue_[i] : i \in 1 .. Len(event_queue_)}
    /\ UNCHANGED <<busy_, worker_thread_, event_queue_, transport_, callbacks_, peers_, clock, args, meshcore, host, tset>>
    /\ UNCHANGED <<wpc, wevent, wuid, wtransport, joined, aborted, destroyed, closing>>
    /\ UNCHANGED <<calls_left, ntags, echoed, accepted, dispatched, reg_log, dropped, handler_calls, status_log, peer_log, msg_log>>
    /\ UNCHANGED call
    /\ UNCHANGED peers_mutex_

\* cv_.notify_one()
StopNotify(t) ==
    /\ Live
    /\ pc[t] = "stop_notify"
    /\ NotifyOne(wpc)
    /\ pc' = [pc EXCEPT ![t] = "stop_join"]
    /\ UNCHANGED <<daemon_vars, args, meshcore, host, tset>>
    /\ UNCHANGED <<frame, call, wevent, wuid, wtransport, joined, aborted, destroyed, closing>>
    /\ UNCHANGED history_vars
    /\ UNCHANGED peers_mutex_

\* std::thread::join() returns once the thread has left worker_loop.
JoinReturnsEarly(wp, w) == TRUE

JoinReturns(wp, w) == wp[w] = "w_done"

\* if (worker_thread_.joinable()) worker_thread_.join();
StopJoin(t) ==
    /\ Live
    /\ pc[t] = "stop_join"
    /\ LET w == worker_thread_ IN
       IF joinable(w)
       THEN /\ JoinReturns(wpc, w)
            /\ joined' = joined \cup {w}
            /\ worker_thread_' = NoThread
       ELSE UNCHANGED <<joined, worker_thread_>>
    /\ pc' = [pc EXCEPT ![t] = "stop_status"]
    /\ UNCHANGED <<running_, busy_, mutex_, event_queue_, transport_, callbacks_, peers_, clock, args, meshcore, host, tset>>
    /\ UNCHANGED <<frame, call, wpc, wevent, wuid, wtransport, aborted, destroyed, closing>>
    /\ UNCHANGED history_vars
    /\ UNCHANGED peers_mutex_

\* if (callbacks_.on_status) callbacks_.on_status(0, ...);  return
StopStatus(t) ==
    /\ Live
    /\ pc[t] = "stop_status"
    /\ status_log' = IF callbacks_.on_status THEN Append(status_log, 0) ELSE status_log
    /\ pc' = [pc EXCEPT ![t] = StopReturnPc(frame[t])]
    /\ frame' = [frame EXCEPT ![t] = StopReturnFrame(frame[t])]
    /\ stop_seen' = [stop_seen EXCEPT ![t] = {}]
    /\ host' = HostCall(host, meshcore, callbacks_, "on_status")
    /\ UNCHANGED <<daemon_vars, args, meshcore, tset>>
    /\ UNCHANGED <<wpc, wevent, wuid, wtransport, joined, aborted, destroyed, closing>>
    /\ UNCHANGED <<calls_left, ntags, echoed, accepted, dispatched, reg_log, dropped, stale, handler_calls, peer_log, msg_log>>
    /\ UNCHANGED call
    /\ UNCHANGED peers_mutex_

\* ------------------------------------------------------------------------
\* Daemon::enqueue_event(Event event)
\* ------------------------------------------------------------------------
\* if (!running_) return;
EnqueueNeverRefuses(run) == FALSE

EnqueueRefuses(run) == ~run

\* if (event.timestamp == 0) event.timestamp = current_timestamp_ms();
StampAlways(e, now) == [e EXCEPT !.timestamp = now]

Stamp(e, now) == IF e.timestamp = 0 THEN [e EXCEPT !.timestamp = now] ELSE e

\* enqueue_event reads the clock when it accepts an event whose timestamp is 0.
Reading(e, run, c) == IF ~EnqueueRefuses(run) /\ e.timestamp = 0 THEN ClockReads(c) ELSE {c}

\* event_queue_.push(std::move(event))
Push(q, e) == Append(q, e)

\* std::lock_guard<std::mutex> lock(mutex_)
EnqueueLock(t) ==
    /\ BeginCall
    /\ Live /\ ~closing
    /\ pc[t] = "idle"
    /\ mutex_ = NoThread
    /\ mutex_' = CallerThread(t)
    /\ pc' = [pc EXCEPT ![t] = "enq_locked"]
    /\ UNCHANGED <<running_, busy_, worker_thread_, event_queue_, transport_, callbacks_, peers_, clock, args, meshcore, host, tset>>
    /\ UNCHANGED <<frame, call, wpc, wevent, wuid, wtransport, joined, aborted, destroyed, closing>>
    /\ UNCHANGED <<ntags, echoed, accepted, dispatched, reg_log, dropped, stale, handler_calls, status_log, peer_log, msg_log, stop_seen>>
    /\ UNCHANGED peers_mutex_

\* The locked block of enqueue_event, for the argument in (tagged ntags + 1).
EnqueueBody(t, in) ==
    /\ Live
    /\ pc[t] = "enq_locked"
    /\ clock' \in Reading(in, running_, clock)
    /\ LET e == [in EXCEPT !.tag = ntags + 1] IN
       IF EnqueueRefuses(running_)
       THEN /\ dropped' = dropped \cup {e}
            /\ pc' = [pc EXCEPT ![t] = "idle"]
            /\ UNCHANGED <<event_queue_, accepted>>
       ELSE /\ event_queue_' = Push(event_queue_, Stamp(e, current_timestamp_ms))
            /\ accepted' = Append(accepted, Stamp(e, current_timestamp_ms))
            /\ pc' = [pc EXCEPT ![t] = "enq_notify"]
            /\ UNCHANGED dropped
    /\ ntags' = ntags + 1
    /\ mutex_' = NoThread
    /\ UNCHANGED <<running_, busy_, worker_thread_, transport_, callbacks_, peers_, args, meshcore, host, tset>>
    /\ UNCHANGED <<frame, call, wpc, wevent, wuid, wtransport, joined, aborted, destroyed, closing>>
    /\ UNCHANGED <<calls_left, dispatched, reg_log, stale, handler_calls, status_log, peer_log, msg_log, stop_seen>>
    /\ UNCHANGED echoed
    /\ UNCHANGED peers_mutex_

\* cv_.notify_one()
EnqueueNotify(t) ==
    /\ Live
    /\ pc[t] = "enq_notify"
    /\ NotifyOne(wpc)
    /\ pc' = [pc EXCEPT ![t] = "idle"]
    /\ UNCHANGED <<daemon_vars, args, meshcore, host, tset>>
    /\ UNCHANGED <<frame, call, wevent, wuid, wtransport, joined, aborted, destroyed, closing>>
    /\ UNCHANGED history_vars
    /\ UNCHANGED peers_mutex_

\* ------------------------------------------------------------------------
\* Daemon::set_transport, Daemon::set_callbacks
\* ------------------------------------------------------------------------
\* The owner configures the daemon before the first start(), as daemon.h asks
\* for the callbacks and as every caller in the repository does.
Configuring ==
    /\ \A w \in WorkerIds : wpc[w] = "none"
    /\ \A t \in Callers : pc[t] \notin {"start_locked", "start_status"}

\* transport_ = t;
ReplaceKeepsFirst(old, new) == IF old = "null" THEN new ELSE old

Replace(old, new) == new

\* set_transport: lock_guard lock(mutex_); transport_ = t;
SetTransport(t, tr) ==
    /\ BeginCall
    /\ Live /\ ~closing
    /\ Configuring \/ args.reconfigure
    /\ pc[t] = "idle"
    /\ mutex_ = NoThread
    /\ transport_' = Replace(transport_, tr)
    /\ tset' = [last |-> tr, since |-> {}]
    /\ UNCHANGED <<running_, busy_, mutex_, worker_thread_, event_queue_, callbacks_, peers_, clock, args, meshcore, host>>
    /\ UNCHANGED thread_vars
    /\ UNCHANGED <<ntags, echoed, accepted, dispatched, reg_log, dropped, stale, handler_calls, status_log, peer_log, msg_log, stop_seen>>
    /\ UNCHANGED peers_mutex_

\* Threads about to read callbacks_ outside mutex_: a worker in front of an
\* on_peer or on_message invocation, a caller in front of that of stop()
CallbacksRead ==
    \/ \E w \in WorkerIds : wpc[w] \in {"h_connected_notify", "h_disconnected_notify", "h_data_notify"}
    \/ \E t \in Callers : pc[t] = "stop_status"

\* A write that is not ordered with such a read is a data race: the process
\* goes on with the old or the new value, or ends.
Racing(ab, read) == IF read THEN {ab, TRUE} ELSE {ab}

\* set_callbacks: lock_guard lock(mutex_); callbacks_ = callbacks;
SetCallbacks(t, cb) ==
    /\ BeginCall
    /\ Live /\ ~closing
    /\ Configuring \/ args.reconfigure
    /\ pc[t] = "idle"
    /\ mutex_ = NoThread
    /\ callbacks_' = cb
    /\ meshcore' = [meshcore EXCEPT !.adapted = FALSE]
    /\ aborted' \in Racing(aborted, CallbacksRead)
    /\ UNCHANGED <<running_, busy_, mutex_, worker_thread_, event_queue_, transport_, peers_, clock, args, host, tset>>
    /\ UNCHANGED <<pc, frame, call, wpc, wevent, wuid, wtransport, joined, destroyed, closing>>
    /\ UNCHANGED <<ntags, echoed, accepted, dispatched, reg_log, dropped, stale, handler_calls, status_log, peer_log, msg_log, stop_seen>>
    /\ UNCHANGED peers_mutex_

\* ------------------------------------------------------------------------
\* meshcore_set_callbacks_impl, setup_daemon_callbacks
\* ------------------------------------------------------------------------
\* Threads about to run a lambda of setup_daemon_callbacks, which reads
\* core->callbacks
CoreCallbacksRead ==
    /\ meshcore.adapted
    /\ \/ \E w \in WorkerIds :
             \/ wpc[w] \in {"h_connected_notify", "h_disconnected_notify"} /\ callbacks_.on_peer
             \/ wpc[w] = "h_data_notify" /\ callbacks_.on_message
       \/ \E t \in Callers : pc[t] \in {"start_status", "stop_status"} /\ callbacks_.on_status

\* if (callbacks) { core->callbacks = *callbacks; has_callbacks = true; }
\* else { memset(&core->callbacks, 0, ...); has_callbacks = false; }
\* then setup_daemon_callbacks, which returns at once without has_callbacks.
\* The host makes one registration at a time.
MeshcoreSetCallbacks(t, cb) ==
    /\ BeginCall
    /\ Live /\ ~closing
    /\ Configuring \/ args.reconfigure
    /\ pc[t] = "idle"
    /\ \A u \in Callers : pc[u] # "mc_setcb"
    /\ meshcore' = [meshcore EXCEPT !.callbacks = DaemonCallbacks(cb.on_message, cb.on_status, cb.on_peer),
                            !.has_callbacks = ~cb.null]
    /\ aborted' \in Racing(aborted, CoreCallbacksRead)
    /\ call' = [call EXCEPT ![t] = [ApiCall("set_callbacks", TRUE, 0, NullPtr, NullPtr, 0)
                                       EXCEPT !.ran = ~cb.null]]
    /\ IF cb.null
       THEN /\ pc' = [pc EXCEPT ![t] = "api_ret"]
            /\ host' = [host EXCEPT !.last = cb]
       ELSE /\ pc' = [pc EXCEPT ![t] = "mc_setcb"]
            /\ host' = [host EXCEPT !.last = cb]
    /\ UNCHANGED <<daemon_vars, args, tset>>
    /\ UNCHANGED <<frame, wpc, wevent, wuid, wtransport, joined, destroyed, closing>>
    /\ UNCHANGED <<ntags, echoed, accepted, dispatched, reg_log, dropped, stale, handler_calls, status_log, peer_log, msg_log, stop_seen>>
    /\ UNCHANGED peers_mutex_

\* setup_daemon_callbacks: one lambda for each member of core->callbacks
\* that is set; core->daemon->set_callbacks(cpp_callbacks)
MeshcoreSetCallbacksApply(t) ==
    /\ Live
    /\ pc[t] = "mc_setcb"
    /\ mutex_ = NoThread
    /\ callbacks_' = meshcore.callbacks
    /\ meshcore' = [meshcore EXCEPT !.adapted = TRUE]
    /\ aborted' \in Racing(aborted, CallbacksRead)
    /\ pc' = [pc EXCEPT ![t] = "api_ret"]
    /\ UNCHANGED <<running_, busy_, mutex_, worker_thread_, event_queue_, transport_, peers_, clock, args, host, tset>>
    /\ UNCHANGED <<frame, call, wpc, wevent, wuid, wtransport, joined, destroyed, closing>>
    /\ UNCHANGED history_vars
    /\ UNCHANGED peers_mutex_

\* ------------------------------------------------------------------------
\* Daemon::~Daemon() and meshcore_destroy_impl
\* ------------------------------------------------------------------------
\* The owner releases the object when no other thread is inside a call.
Quiescent == \A t \in Callers : pc[t] = "idle"

\* ~Daemon() { stop(); }  entered directly (a Daemon on the stack)
DestructorCall(t) ==
    /\ BeginCall
    /\ Live /\ ~closing
    /\ Quiescent
    /\ closing' = TRUE
    /\ frame' = [frame EXCEPT ![t] = "dtor"]
    /\ pc' = [pc EXCEPT ![t] = "call_stop"]
    /\ UNCHANGED <<daemon_vars, args, meshcore, host, tset>>
    /\ UNCHANGED <<wpc, wevent, wuid, wtransport, joined, aborted, destroyed>>
    /\ UNCHANGED <<ntags, echoed, accepted, dispatched, reg_log, dropped, stale, handler_calls, status_log, peer_log, msg_log, stop_seen>>
    /\ UNCHANGED call
    /\ UNCHANGED peers_mutex_

\* core->daemon->stop(); delete core->daemon;
MeshcoreDestroy(t) ==
    /\ BeginCall
    /\ Live /\ ~closing
    /\ Quiescent
    /\ closing' = TRUE
    /\ frame' = [frame EXCEPT ![t] = "mc_destroy"]
    /\ pc' = [pc EXCEPT ![t] = "call_stop"]
    /\ UNCHANGED <<daemon_vars, args, meshcore, host, tset>>
    /\ UNCHANGED <<wpc, wevent, wuid, wtransport, joined, aborted, destroyed>>
    /\ UNCHANGED <<ntags, echoed, accepted, dispatched, reg_log, dropped, stale, handler_calls, status_log, peer_log, msg_log, stop_seen>>
    /\ UNCHANGED call
    /\ UNCHANGED peers_mutex_

\* After stop() the members are destroyed; ~thread() of a joinable
\* worker_thread_ calls std::terminate().
DestructorRelease(t) ==
    /\ Live
    /\ pc[t] = "dtor_release"
    /\ destroyed' = TRUE
    /\ aborted' = joinable(worker_thread_)
    /\ pc' = [pc EXCEPT ![t] = "idle"]
    /\ frame' = [frame EXCEPT ![t] = "none"]
    /\ UNCHANGED <<daemon_vars, args, meshcore, host, tset>>
    /\ UNCHANGED <<wpc, wevent, wuid, wtransport, joined, closing>>
    /\ UNCHANGED history_vars
    /\ UNCHANGED call
    /\ UNCHANGED peers_mutex_

\* ------------------------------------------------------------------------
\* Daemon::worker_loop()
\* ------------------------------------------------------------------------
\* switch (event.type): the first position inside the matching case
CaseOfEchoes(ty) ==
    CASE ty = "PeerConnected"    -> "h_connected_add"
      [] ty = "PeerDisconnected" -> "h_disconnected_find"
      [] ty = "DataReceived"     -> "h_send_get"
      [] ty = "SendMessage"      -> "h_send_get"
      [] ty = "Shutdown"         -> "w_shutdown"

CaseOfRegisters(ty) ==
    CASE ty = "PeerConnected"    -> "h_connected_add"
      [] ty = "PeerDisconnected" -> "h_disconnected_find"
      [] ty = "DataReceived"     -> "h_connected_add"
      [] ty = "SendMessage"      -> "h_send_get"
      [] ty = "Shutdown"         -> "w_shutdown"

CaseOf(ty) ==
    CASE ty = "PeerConnected"    -> "h_connected_add"
      [] ty = "PeerDisconnected" -> "h_disconnected_find"
      [] ty = "DataReceived"     -> "h_data_find"
      [] ty = "SendMessage"      -> "h_send_get"
      [] ty = "Shutdown"         -> "w_shutdown"

HandlerPcs == {"h_connected_add", "h_connected_notify",
               "h_disconnected_find", "h_disconnected_remove", "h_disconnected_notify",
               "h_data_find", "h_data_notify",
               "h_send_get", "h_send_transmit", "h_send_notify"}

\* Workers inside a handle_* call
InHandler == {w \in WorkerIds : wpc[w] \in HandlerPcs}

\* event_queue_.front()
FrontIsNewest(q) == q[Len(q)]

Front(q) == Head(q)

\* event_queue_.pop()
PopAll(q) == << >>

Pop(q) == Tail(q)

\* The wait predicate: !event_queue_.empty() || !running_
WaitOver(q, run) == q # << >> \/ ~run

\* One pass of the locked part of the loop, entered with mutex_ held and
\* running_ = run, busy_ = bsy: while (running_) { cv_.wait(lock, pred);
\* if (!running_) break; event = front(); pop(); busy_ = true; unlock; switch }
LoopPass(w, run, bsy) ==
    /\ running_' = run
    /\ mutex_' = NoThread
    /\ IF ~run
       THEN \* loop exits, worker_loop returns, the lock is released
            /\ wpc' = [wpc EXCEPT ![w] = "w_done"]
            /\ busy_' = bsy
            /\ wevent' = [wevent EXCEPT ![w] = NoEvent]
            /\ UNCHANGED <<event_queue_, dispatched, reg_log, handler_calls, tset>>
       ELSE IF ~WaitOver(event_queue_, run)
       THEN \* cv_.wait releases the lock and blocks
            /\ wpc' = [wpc EXCEPT ![w] = "w_wait"]
            /\ busy_' = bsy
            /\ wevent' = [wevent EXCEPT ![w] = NoEvent]
            /\ UNCHANGED <<event_queue_, dispatched, reg_log, handler_calls, tset>>
       ELSE /\ wevent' = [wevent EXCEPT ![w] = Front(event_queue_)]
            /\ event_queue_' = Pop(event_queue_)
            /\ dispatched' = Append(dispatched, Front(event_queue_))
            /\ reg_log' = Append(reg_log, peers_)
            /\ busy_' = TRUE
            /\ tset' = [tset EXCEPT !.since = @ \cup {<<"w", w>>}]
            /\ wpc' = [wpc EXCEPT ![w] = CaseOf(Front(event_queue_).type)]
            /\ handler_calls' = IF Front(event_queue_).type = "Shutdown"
                                THEN handler_calls ELSE handler_calls + 1

\* std::unique_lock<std::mutex> lock(mutex_); first pass of the loop
WorkerEnter(w) ==
    /\ Live
    /\ wpc[w] = "w_start"
    /\ mutex_ = NoThread
    /\ LoopPass(w, running_, busy_)
    /\ UNCHANGED <<worker_thread_, transport_, callbacks_, peers_, clock, args, meshcore, host>>
    /\ UNCHANGED <<pc, frame, call, wuid, wtransport, joined, aborted, destroyed, closing>>
    /\ UNCHANGED <<calls_left, ntags, echoed, accepted, dropped, stale, status_log, peer_log, msg_log, stop_seen>>
    /\ UNCHANGED peers_mutex_

\* A waiting worker wakes without a notification.
SpuriousWake(w) ==
    /\ Live
    /\ wpc[w] = "w_wait"
    /\ wpc' = [wpc EXCEPT ![w] = "w_woken"]
    /\ UNCHANGED <<daemon_vars, args, meshcore, host, tset>>
    /\ UNCHANGED <<pc, frame, call, wevent, wuid, wtransport, joined, aborted, destroyed, closing>>
    /\ UNCHANGED history_vars
    /\ UNCHANGED peers_mutex_

\* cv_.wait reacquires the lock and evaluates the predicate again
WorkerWake(w) ==
    /\ Live
    /\ wpc[w] = "w_woken"
    /\ mutex_ = NoThread
    /\ LoopPass(w, running_, busy_)
    /\ UNCHANGED <<worker_thread_, transport_, callbacks_, peers_, clock, args, meshcore, host>>
    /\ UNCHANGED <<pc, frame, call, wuid, wtransport, joined, aborted, destroyed, closing>>
    /\ UNCHANGED <<calls_left, ntags, echoed, accepted, dropped, stale, status_log, peer_log, msg_log, stop_seen>>
    /\ UNCHANGED peers_mutex_

\* lock.lock(); busy_ = false;  then the next pass
WorkerFinish(w) ==
    /\ Live
    /\ wpc[w] = "w_after"
    /\ mutex_ = NoThread
    /\ LoopPass(w, running_, FALSE)
    /\ UNCHANGED <<worker_thread_, transport_, callbacks_, peers_, clock, args, meshcore, host>>
    /\ UNCHANGED <<pc, frame, call, wuid, wtransport, joined, aborted, destroyed, closing>>
    /\ UNCHANGED <<calls_left, ntags, echoed, accepted, dropped, stale, status_log, peer_log, msg_log, stop_seen>>
    /\ UNCHANGED peers_mutex_

\* case EventType::Shutdown: lock.lock(); running_ = false; continue;
WorkerShutdown(w) ==
    /\ Live
    /\ wpc[w] = "w_shutdown"
    /\ mutex_ = NoThread
    /\ LoopPass(w, FALSE, busy_)
    /\ UNCHANGED <<worker_thread_, transport_, callbacks_, peers_, clock, args, meshcore, host>>
    /\ UNCHANGED <<pc, frame, call, wuid, wtransport, joined, aborted, destroyed, closing>>
    /\ UNCHANGED <<calls_left, ntags, echoed, accepted, dropped, stale, status_log, peer_log, msg_log, stop_seen>>
    /\ UNCHANGED peers_mutex_

\* ------------------------------------------------------------------------
\* Peer registry (peers_, guarded by peers_mutex_)
\* ------------------------------------------------------------------------
\* Daemon::add_peer: peers_[peer_id] = info
add_peer_after_notify(reg, p, u, now) == reg

add_peer_insert(reg, p, u, now) ==
    [q \in (DOMAIN reg) \cup {p} |-> IF q \in DOMAIN reg THEN reg[q] ELSE PeerInfo(p, u, now)]

add_peer(reg, p, u, now) ==
    [q \in (DOMAIN reg) \cup {p} |-> IF q = p THEN PeerInfo(p, u, now) ELSE reg[q]]

\* Daemon::remove_peer: peers_.erase(peer_id)
remove_peer_clear(reg, p) == << >>

remove_peer(reg, p) == [q \in (DOMAIN reg) \ {p} |-> reg[q]]

\* Daemon::has_peer
has_peer(reg, p) == p \in DOMAIN reg

\* Daemon::get_peer_count
get_peer_count(reg) == Cardinality(DOMAIN reg)

\* auto it = peers_.find(peer_id); if (it != peers_.end()) uid = it->second.uid;
FindUidAfterErase(reg, p) == ""

FindUid(reg, p) == IF p \in DOMAIN reg THEN reg[p].uid ELSE ""

\* ------------------------------------------------------------------------
\* Daemon::get_peer_count (through meshcore_get_peer_count_impl)
\* ------------------------------------------------------------------------
\* lock_guard lock(peers_mutex_); return peers_.size();
GetPeerCount(t) ==
    /\ BeginCall
    /\ Live /\ ~closing
    /\ pc[t] = "idle"
    /\ call' = [call EXCEPT ![t] =
                   [ApiCall("get_peer_count", TRUE, 0, NullPtr, NullPtr, 0)
                       EXCEPT !.count = get_peer_count(peers_)]]
    /\ pc' = [pc EXCEPT ![t] = "api_ret"]
    /\ UNCHANGED <<daemon_vars, args, meshcore, host, tset>>
    /\ UNCHANGED <<frame, wpc, wevent, wuid, wtransport, joined, aborted, destroyed, closing>>
    /\ UNCHANGED <<ntags, echoed, accepted, dispatched, reg_log, dropped, stale, handler_calls, status_log, peer_log, msg_log, stop_seen>>
    /\ peers_mutex_ = NoThread
    /\ UNCHANGED peers_mutex_

\* The C API call returns to the caller.
ApiReturn(t) ==
    /\ Live
    /\ pc[t] = "api_ret"
    /\ call' = [call EXCEPT ![t] = NoCall]
    /\ pc' = [pc EXCEPT ![t] = "idle"]
    /\ tset' = [tset EXCEPT !.since = @ \ {<<"t", t>>}]
    /\ UNCHANGED <<daemon_vars, args, meshcore, host>>
    /\ UNCHANGED <<frame, wpc, wevent, wuid, wtransport, joined, aborted, destroyed, closing>>
    /\ UNCHANGED history_vars
    /\ UNCHANGED peers_mutex_

\* ------------------------------------------------------------------------
\* Event handlers (run by the worker with mutex_ released)
\* ------------------------------------------------------------------------
\* handle_peer_connected: add_peer(event.peer_id, event.peer_uid)
HandlePeerConnectedAdd(w) ==
    /\ Live
    /\ wpc[w] = "h_connected_add"
    /\ clock' \in ClockReads(clock)
    /\ peers_' = add_peer(peers_, wevent[w].peer_id, wevent[w].peer_uid, current_timestamp_ms)
    /\ wpc' = [wpc EXCEPT ![w] = "h_connected_notify"]
    /\ UNCHANGED <<running_, busy_, mutex_, worker_thread_, event_queue_, transport_, callbacks_, args, meshcore, host, tset>>
    /\ UNCHANGED <<pc, frame, call, wevent, wuid, wtransport, joined, aborted, destroyed, closing>>
    /\ UNCHANGED history_vars
    /\ peers_mutex_ = NoThread
    /\ UNCHANGED peers_mutex_

\* handle_peer_connected: if (callbacks_.on_peer) callbacks_.on_peer(peer_id, peer_uid, true)
HandlePeerConnectedNotify(w) ==
    /\ Live
    /\ wpc[w] = "h_connected_notify"
    /\ peer_log' = IF callbacks_.on_peer
                   THEN Append(peer_log, [peer_id |-> wevent[w].peer_id, uid |-> wevent[w].peer_uid,
                                          connected |-> TRUE])
                   ELSE peer_log
    /\ wpc' = [wpc EXCEPT ![w] = "w_after"]
    /\ host' = HostCall(host, meshcore, callbacks_, "on_peer")
    /\ UNCHANGED <<daemon_vars, args, meshcore, tset>>
    /\ UNCHANGED <<pc, frame, call, wevent, wuid, wtransport, joined, aborted, destroyed, closing>>
    /\ UNCHANGED <<calls_left, ntags, echoed, accepted, dispatched, reg_log, dropped, stale, handler_calls, status_log, msg_log, stop_seen>>
    /\ UNCHANGED peers_mutex_

\* handle_peer_disconnected: look the uid up under peers_mutex_
HandlePeerDisconnectedFind(w) ==
    /\ Live
    /\ wpc[w] = "h_disconnected_find"
    /\ wuid' = [wuid EXCEPT ![w] = FindUid(peers_, wevent[w].peer_id)]
    /\ wpc' = [wpc EXCEPT ![w] = "h_disconnected_remove"]
    /\ UNCHANGED <<daemon_vars, args, meshcore, host, tset>>
    /\ UNCHANGED <<pc, frame, call, wevent, wtransport, joined, aborted, destroyed, closing>>
    /\ UNCHANGED history_vars
    /\ peers_mutex_ = NoThread
    /\ UNCHANGED peers_mutex_

\* handle_peer_disconnected: remove_peer(event.peer_id)
HandlePeerDisconnectedRemove(w) ==
    /\ Live
    /\ wpc[w] = "h_disconnected_remove"
    /\ peers_' = remove_peer(peers_, wevent[w].peer_id)
    /\ wpc' = [wpc EXCEPT ![w] = "h_disconnected_notify"]
    /\ UNCHANGED <<running_, busy_, mutex_, worker_thread_, event_queue_, transport_, callbacks_, clock, args, meshcore, host, tset>>
    /\ UNCHANGED <<pc, frame, call, wevent, wuid, wtransport, joined, aborted, destroyed, closing>>
    /\ UNCHANGED history_vars
    /\ peers_mutex_ = NoThread
    /\ UNCHANGED peers_mutex_

\* handle_peer_disconnected: if (callbacks_.on_peer) callbacks_.on_peer(peer_id, uid, false)
HandlePeerDisconnectedNotify(w) ==
    /\ Live
    /\ wpc[w] = "h_disconnected_notify"
    /\ peer_log' = IF callbacks_.on_peer
                   THEN Append(peer_log, [peer_id |-> wevent[w].peer_id, uid |-> wuid[w],
                                          connected |-> FALSE])
                   ELSE peer_log
    /\ wuid' = [wuid EXCEPT ![w] = ""]
    /\ wpc' = [wpc EXCEPT ![w] = "w_after"]
    /\ host' = HostCall(host, meshcore, callbacks_, "on_peer")
    /\ UNCHANGED <<daemon_vars, args, meshcore, tset>>
    /\ UNCHANGED <<pc, frame, call, wevent, wtransport, joined, aborted, destroyed, closing>>
    /\ UNCHANGED <<calls_left, ntags, echoed, accepted, dispatched, reg_log, dropped, stale, handler_calls, status_log, msg_log, stop_seen>>
    /\ UNCHANGED peers_mutex_

\* handle_data_received: look the uid up under peers_mutex_
HandleDataFind(w) ==
    /\ Live
    /\ wpc[w] = "h_data_find"
    /\ wuid' = [wuid EXCEPT ![w] = FindUid(peers_, wevent[w].peer_id)]
    /\ wpc' = [wpc EXCEPT ![w] = "h_data_notify"]
    /\ UNCHANGED <<daemon_vars, args, meshcore, host, tset>>
    /\ UNCHANGED <<pc, frame, call, wevent, wtransport, joined, aborted, destroyed, closing>>
    /\ UNCHANGED history_vars
    /\ peers_mutex_ = NoThread
    /\ UNCHANGED peers_mutex_

\* handle_data_received: if (callbacks_.on_message) callbacks_.on_message(...)
HandleDataNotify(w) ==
    /\ Live
    /\ wpc[w] = "h_data_notify"
    /\ msg_log' = IF callbacks_.on_message
                  THEN Append(msg_log, [peer_id |-> wevent[w].peer_id, uid |-> wuid[w],
                                        data |-> wevent[w].data, timestamp |-> wevent[w].timestamp,
                                        tag |-> wevent[w].tag])
                  ELSE msg_log
    /\ wuid' = [wuid EXCEPT ![w] = ""]
    /\ wpc' = [wpc EXCEPT ![w] = "w_after"]
    /\ host' = HostCall(host, meshcore, callbacks_, "on_message")
    /\ UNCHANGED <<daemon_vars, args, meshcore, tset>>
    /\ UNCHANGED <<pc, frame, call, wevent, wtransport, joined, aborted, destroyed, closing>>
    /\ UNCHANGED <<calls_left, ntags, echoed, accepted, dispatched, reg_log, dropped, stale, handler_calls, status_log, peer_log, stop_seen>>
    /\ UNCHANGED peers_mutex_

\* send_to_peer: if (t)
TransportAlwaysSet(tr) == TRUE

TransportSet(tr) == tr # "null"

\* handle_send_message -> send_to_peer: { lock_guard lock(mutex_); t = transport_; }
\* if (t) t->send(peer_id, data);
HandleSendGet(w) ==
    /\ Live
    /\ wpc[w] = "h_send_get"
    /\ mutex_ = NoThread
    /\ wtransport' = [wtransport EXCEPT ![w] = transport_]
    /\ wpc' = [wpc EXCEPT ![w] = IF TransportSet(transport_) THEN "h_send_transmit" ELSE "w_after"]
    /\ UNCHANGED <<daemon_vars, args, meshcore, host, tset>>
    /\ UNCHANGED <<pc, frame, call, wevent, wuid, joined, aborted, destroyed, closing>>
    /\ UNCHANGED history_vars
    /\ UNCHANGED peers_mutex_

\* History of one Loopback_transport::send: the tag of the event it built and
\* the tag of the SendMessage event it was called for (0: called by send_to_uid)
Echo(tag, of) == [tag |-> tag, of |-> of]

\* Loopback_transport::send: a DataReceived event for the same peer and data
LoopbackEventEmpty(p, d) == Event("DataReceived", p, "", "", 0, 0)

LoopbackEvent(p, d) == Event("DataReceived", p, "", d, 0, 0)

\* Loopback_transport::send -> Daemon::enqueue_event, locked block
HandleSendTransmit(w) ==
    /\ Live
    /\ wpc[w] = "h_send_transmit"
    /\ mutex_ = NoThread
    /\ clock' \in Reading(LoopbackEvent(wevent[w].peer_id, wevent[w].data), running_, clock)
    /\ LET e == [LoopbackEvent(wevent[w].peer_id, wevent[w].data) EXCEPT !.tag = ntags + 1] IN
       IF EnqueueRefuses(running_)
       THEN /\ dropped' = dropped \cup {e}
            /\ wpc' = [wpc EXCEPT ![w] = "w_after"]
            /\ UNCHANGED <<event_queue_, accepted>>
       ELSE /\ event_queue_' = Push(event_queue_, Stamp(e, current_timestamp_ms))
            /\ accepted' = Append(accepted, Stamp(e, current_timestamp_ms))
            /\ wpc' = [wpc EXCEPT ![w] = "h_send_notify"]
            /\ UNCHANGED dropped
    /\ ntags' = ntags + 1
    /\ echoed' = echoed \cup {Echo(ntags + 1, wevent[w].tag)}
    /\ wtransport' = [wtransport EXCEPT ![w] = "null"]
    /\ UNCHANGED <<running_, busy_, mutex_, worker_thread_, transport_, callbacks_, peers_, args, meshcore, host, tset>>
    /\ UNCHANGED <<pc, frame, call, wevent, wuid, joined, aborted, destroyed, closing>>
    /\ UNCHANGED <<calls_left, dispatched, reg_log, stale, handler_calls, status_log, peer_log, msg_log, stop_seen>>
    /\ UNCHANGED peers_mutex_

\* Loopback_transport::send -> Daemon::enqueue_event: cv_.notify_one()
HandleSendNotify(w) ==
    /\ Live
    /\ wpc[w] = "h_send_notify"
    /\ NotifyOne([wpc EXCEPT ![w] = "w_after"])
    /\ UNCHANGED <<daemon_vars, args, meshcore, host, tset>>
    /\ UNCHANGED <<pc, frame, call, wevent, wuid, wtransport, joined, aborted, destroyed, closing>>
    /\ UNCHANGED history_vars
    /\ UNCHANGED peers_mutex_

\* ------------------------------------------------------------------------
\* meshcore_send_message_impl, meshcore_send_message_to_uid_impl
\* ------------------------------------------------------------------------
\* if (len > MESHCORE_MAX_MESSAGE_SIZE)
TooLongOffByOne(len) == len >= MESHCORE_MAX_MESSAGE_SIZE

TooLong(len) == len > MESHCORE_MAX_MESSAGE_SIZE

\* The early returns of meshcore_send_message_impl, in order; run is what
\* is_running() returned.
SendResult(core, run, message, len) ==
    IF ~core THEN "MESHCORE_ERROR_UNKNOWN"
    ELSE IF ~run THEN "MESHCORE_ERROR_NOT_RUNNING"
    ELSE IF message.null \/ len = 0 THEN "MESHCORE_ERROR_INVALID_PARAM"
    ELSE IF TooLong(len) THEN "MESHCORE_ERROR_MESSAGE_TOO_LONG"
    ELSE "MESHCORE_OK"

\* The early returns of meshcore_send_message_to_uid_impl, in order.
SendToUidResult(core, run, uid, message, len) ==
    IF ~core THEN "MESHCORE_ERROR_UNKNOWN"
    ELSE IF ~run THEN "MESHCORE_ERROR_NOT_RUNNING"
    ELSE IF uid.null \/ message.null \/ len = 0 THEN "MESHCORE_ERROR_INVALID_PARAM"
    ELSE IF TooLong(len) THEN "MESHCORE_ERROR_MESSAGE_TOO_LONG"
    ELSE "MESHCORE_OK"

\* return MESHCORE_OK;  at the end of both functions
SentResultIsError == "MESHCORE_ERROR_UNKNOWN"

SentResult == "MESHCORE_OK"

\* The call returns code.
Returns(t, c, code) ==
    /\ call' = [call EXCEPT ![t] = [c EXCEPT !.code = code]]
    /\ pc' = [pc EXCEPT ![t] = "api_ret"]

\* meshcore_send_message_impl up to the enqueue_event call: the handle check,
\* is_running() under mutex_, the argument checks.
SendMessageCall(t, p) ==
    /\ BeginCall
    /\ Live /\ ~closing
    /\ pc[t] = "idle"
    /\ args.core => mutex_ = NoThread
    /\ LET in == ApiCall("send_message", args.core, p, NullPtr, args.message, args.len)
           c == [in EXCEPT !.ran = in.core /\ running_]
           code == SendResult(in.core, running_, in.message, in.len) IN
       IF code # "MESHCORE_OK"
       THEN Returns(t, c, code)
       ELSE /\ call' = [call EXCEPT ![t] = c]
            /\ pc' = [pc EXCEPT ![t] = "send_enq"]
    /\ UNCHANGED <<daemon_vars, args, meshcore, host, tset>>
    /\ UNCHANGED <<frame, wpc, wevent, wuid, wtransport, joined, aborted, destroyed, closing>>
    /\ UNCHANGED <<ntags, echoed, accepted, dispatched, reg_log, dropped, stale, handler_calls, status_log, peer_log, msg_log, stop_seen>>
    /\ UNCHANGED peers_mutex_

\* Daemon::Event event; type = SendMessage; peer_id; data = std::string(message, len)
SendEvent(p, message, len) == Event("SendMessage", p, "", StdString(message, len), 0, 0)

\* core->daemon->enqueue_event(std::move(event)): the locked block
SendMessageEnqueue(t) ==
    /\ Live
    /\ pc[t] = "send_enq"
    /\ mutex_ = NoThread
    /\ clock' \in Reading(SendEvent(call[t].peer_id, call[t].message, call[t].len), running_, clock)
    /\ LET e == [SendEvent(call[t].peer_id, call[t].message, call[t].len) EXCEPT !.tag = ntags + 1]
           c == [call[t] EXCEPT !.tag = ntags + 1] IN
       IF EnqueueRefuses(running_)
       THEN /\ dropped' = dropped \cup {e}
            /\ Returns(t, c, SentResult)
            /\ UNCHANGED <<event_queue_, accepted>>
       ELSE /\ event_queue_' = Push(event_queue_, Stamp(e, current_timestamp_ms))
            /\ accepted' = Append(accepted, Stamp(e, current_timestamp_ms))
            /\ call' = [call EXCEPT ![t] = c]
            /\ pc' = [pc EXCEPT ![t] = "send_notify"]
            /\ UNCHANGED dropped
    /\ ntags' = ntags + 1
    /\ UNCHANGED <<running_, busy_, mutex_, worker_thread_, transport_, callbacks_, peers_, args, meshcore, host, tset>>
    /\ UNCHANGED <<frame, wpc, wevent, wuid, wtransport, joined, aborted, destroyed, closing>>
    /\ UNCHANGED <<calls_left, echoed, dispatched, reg_log, stale, handler_calls, status_log, peer_log, msg_log, stop_seen>>
    /\ UNCHANGED peers_mutex_

\* enqueue_event: cv_.notify_one();  then return MESHCORE_OK
SendMessageNotify(t) ==
    /\ Live
    /\ pc[t] = "send_notify"
    /\ NotifyOne(wpc)
    /\ Returns(t, call[t], SentResult)
    /\ UNCHANGED <<daemon_vars, args, meshcore, host, tset>>
    /\ UNCHANGED <<frame, wevent, wuid, wtransport, joined, aborted, destroyed, closing>>
    /\ UNCHANGED history_vars
    /\ UNCHANGED peers_mutex_

\* meshcore_send_message_to_uid_impl up to the send_to_uid call
SendToUidCall(t) ==
    /\ BeginCall
    /\ Live /\ ~closing
    /\ pc[t] = "idle"
    /\ args.core => mutex_ = NoThread
    /\ LET in == ApiCall("send_message_to_uid", args.core, 0, args.uid, args.message, args.len)
           c == [in EXCEPT !.ran = in.core /\ running_]
           code == SendToUidResult(in.core, running_, in.uid, in.message, in.len) IN
       IF code # "MESHCORE_OK"
       THEN Returns(t, c, code)
       ELSE /\ call' = [call EXCEPT ![t] = c]
            /\ pc' = [pc EXCEPT ![t] = "uid_lock"]
    /\ tset' = [tset EXCEPT !.since = @ \cup {<<"t", t>>}]
    /\ UNCHANGED <<daemon_vars, args, meshcore, host>>
    /\ UNCHANGED <<frame, wpc, wevent, wuid, wtransport, joined, aborted, destroyed, closing>>
    /\ UNCHANGED <<ntags, echoed, accepted, dispatched, reg_log, dropped, stale, handler_calls, status_log, peer_log, msg_log, stop_seen>>
    /\ UNCHANGED peers_mutex_

\* Daemon::send_to_uid: the first entry of peers_ (ordered by key) whose uid
\* matches, 0 if there is none
FindPeerIdOrLast(reg, uid) ==
    LET found == {p \in DOMAIN reg : reg[p].uid = uid} IN
    IF found # {} THEN CHOOSE p \in found : \A q \in found : p <= q
    ELSE IF DOMAIN reg = {} THEN 0
    ELSE CHOOSE p \in DOMAIN reg : \A q \in DOMAIN reg : p >= q

FindPeerId(reg, uid) ==
    LET found == {p \in DOMAIN reg : reg[p].uid = uid} IN
    IF found = {} THEN 0 ELSE CHOOSE p \in found : \A q \in found : p <= q

\* Daemon::send_to_uid: std::lock_guard<std::mutex> lock(peers_mutex_)
SendToUidLock(t) ==
    /\ Live
    /\ pc[t] = "uid_lock"
    /\ peers_mutex_ = NoThread
    /\ peers_mutex_' = CallerThread(t)
    /\ pc' = [pc EXCEPT ![t] = "uid_find"]
    /\ UNCHANGED <<daemon_vars, args, meshcore, host, tset>>
    /\ UNCHANGED <<frame, call, wpc, wevent, wuid, wtransport, joined, aborted, destroyed, closing>>
    /\ UNCHANGED history_vars

\* Daemon::send_to_uid: the block of the scan ends before send_to_peer is
\* called, and with it the lock_guard on peers_mutex_
ScanUnlockAfterSend(owner) == owner

ScanUnlock(owner) == NoThread

\* Daemon::send_to_uid: the scan under peers_mutex_; if (peer_id != 0) send_to_peer
SendToUidFind(t) ==
    /\ Live
    /\ pc[t] = "uid_find"
    /\ LET p == FindPeerId(peers_, call[t].uid.str) IN
       IF p # 0
       THEN /\ call' = [call EXCEPT ![t].peer_id = p]
            /\ pc' = [pc EXCEPT ![t] = "uid_get"]
       ELSE Returns(t, call[t], SentResult)
    /\ UNCHANGED <<daemon_vars, args, meshcore, host, tset>>
    /\ UNCHANGED <<frame, wpc, wevent, wuid, wtransport, joined, aborted, destroyed, closing>>
    /\ UNCHANGED history_vars
    /\ peers_mutex_ = CallerThread(t)
    /\ peers_mutex_' = ScanUnlock(peers_mutex_)

\* Daemon::send_to_peer: { lock_guard lock(mutex_); t = transport_; }  if (t) ...
SendToUidGet(t) ==
    /\ Live
    /\ pc[t] = "uid_get"
    /\ mutex_ = NoThread
    /\ IF TransportSet(transport_)
       THEN /\ pc' = [pc EXCEPT ![t] = "uid_transmit"]
            /\ UNCHANGED call
       ELSE Returns(t, call[t], SentResult)
    /\ UNCHANGED <<daemon_vars, args, meshcore, host, tset>>
    /\ UNCHANGED <<frame, wpc, wevent, wuid, wtransport, joined, aborted, destroyed, closing>>
    /\ UNCHANGED history_vars
    /\ UNCHANGED peers_mutex_

\* t->send(peer_id, data): Loopback_transport::send -> enqueue_event, locked block
SendToUidTransmit(t) ==
    /\ Live
    /\ pc[t] = "uid_transmit"
    /\ mutex_ = NoThread
    /\ clock' \in Reading(LoopbackEvent(call[t].peer_id, StdString(call[t].message, call[t].len)), running_, clock)
    /\ LET e == [LoopbackEvent(call[t].peer_id, StdString(call[t].message, call[t].len))
                    EXCEPT !.tag = ntags + 1]
           c == [call[t] EXCEPT !.tag = ntags + 1] IN
       IF EnqueueRefuses(running_)
       THEN /\ dropped' = dropped \cup {e}
            /\ Returns(t, c, SentResult)
            /\ UNCHANGED <<event_queue_, accepted>>
       ELSE /\ event_queue_' = Push(event_queue_, Stamp(e, current_timestamp_ms))
            /\ accepted' = Append(accepted, Stamp(e, current_timestamp_ms))
            /\ call' = [call EXCEPT ![t] = c]
            /\ pc' = [pc EXCEPT ![t] = "uid_notify"]
            /\ UNCHANGED dropped
    /\ ntags' = ntags + 1
    /\ echoed' = echoed \cup {Echo(ntags + 1, 0)}
    /\ UNCHANGED <<running_, busy_, mutex_, worker_thread_, transport_, callbacks_, peers_, args, meshcore, host, tset>>
    /\ UNCHANGED <<frame, wpc, wevent, wuid, wtransport, joined, aborted, destroyed, closing>>
    /\ UNCHANGED <<calls_left, dispatched, reg_log, stale, handler_calls, status_log, peer_log, msg_log, stop_seen>>
    /\ UNCHANGED peers_mutex_

\* Loopback_transport::send -> enqueue_event: cv_.notify_one();  then return MESHCORE_OK
SendToUidNotify(t) ==
    /\ Live
    /\ pc[t] = "uid_notify"
    /\ NotifyOne(wpc)
    /\ Returns(t, call[t], SentResult)
    /\ UNCHANGED <<daemon_vars, args, meshcore, host, tset>>
    /\ UNCHANGED <<frame, wevent, wuid, wtransport, joined, aborted, destroyed, closing>>
    /\ UNCHANGED history_vars
    /\ UNCHANGED peers_mutex_

\* ------------------------------------------------------------------------
\* Specification
\* ------------------------------------------------------------------------
CallerStep(t) ==
    \/ StartLock(t) \/ StartBody(t) \/ StartStatus(t)
    \/ StopLock(t) \/ StopBody(t) \/ StopNotify(t) \/ StopJoin(t) \/ StopStatus(t)
    \/ EnqueueLock(t) \/ (\E in \in EventsOf(args.peer_ids, args.uids, args.stamps) : EnqueueBody(t, in)) \/ EnqueueNotify(t)
    \/ (\E tr \in Transports : SetTransport(t, tr))
    \/ (\E cb \in CallbackSets : SetCallbacks(t, cb))
    \/ DestructorCall(t) \/ MeshcoreDestroy(t) \/ DestructorRelease(t)
    \/ GetPeerCount(t) \/ ApiReturn(t)
    \/ (\E cb \in args.cbs : MeshcoreSetCallbacks(t, cb)) \/ MeshcoreSetCallbacksApply(t)
    \/ (\E p \in args.peer_ids : SendMessageCall(t, p))
    \/ SendMessageEnqueue(t) \/ SendMessageNotify(t)
    \/ SendToUidCall(t) \/ SendToUidLock(t)
    \/ SendToUidFind(t) \/ SendToUidGet(t) \/ SendToUidTransmit(t) \/ SendToUidNotify(t)

WorkerStep(w) ==
    \/ WorkerEnter(w) \/ WorkerWake(w) \/ WorkerFinish(w) \/ WorkerShutdown(w)
    \/ HandlePeerConnectedAdd(w) \/ HandlePeerConnectedNotify(w)
    \/ HandlePeerDisconnectedFind(w) \/ HandlePeerDisconnectedRemove(w)
    \/ HandlePeerDisconnectedNotify(w)
    \/ HandleDataFind(w) \/ HandleDataNotify(w)
    \/ HandleSendGet(w) \/ HandleSendTransmit(w) \/ HandleSendNotify(w)

Next ==
    \/ \E t \in Callers : CallerStep(t)
    \/ \E w \in WorkerIds : WorkerStep(w)
    \/ \E w \in WorkerIds : SpuriousWake(w)

Spec == Init /\ [][Next]_vars

SpecWide == InitWide /\ [][Next]_vars

SpecApi == InitApi /\ [][Next]_vars

SpecReg == InitReg /\ [][Next]_vars

SpecClock == InitClock /\ [][Next]_vars

SpecReconf == InitReconf /\ [][Next]_vars

\* A thread that is inside a call goes on when it can.
CallerContinue(t) ==
    \/ StartBody(t) \/ StartStatus(t)
    \/ StopBody(t) \/ StopNotify(t) \/ StopJoin(t) \/ StopStatus(t)
    \/ (\E in \in EventsOf(args.peer_ids, args.uids, args.stamps) : EnqueueBody(t, in)) \/ EnqueueNotify(t)
    \/ (pc[t] = "call_stop" /\ StopLock(t)) \/ DestructorRelease(t)
    \/ ApiReturn(t) \/ MeshcoreSetCallbacksApply(t)
    \/ SendMessageEnqueue(t) \/ SendMessageNotify(t)
    \/ SendToUidLock(t) \/ SendToUidFind(t) \/ SendToUidGet(t) \/ SendToUidTransmit(t) \/ SendToUidNotify(t)

\* Spec with a fair scheduler: no thread that can run is left out for ever.
SpecFair ==
    /\ Init /\ [][Next]_vars
    /\ \A t \in Callers : WF_vars(CallerContinue(t))
    /\ \A w \in WorkerIds : WF_vars(WorkerStep(w))

\* ------------------------------------------------------------------------
\* Properties
\* ------------------------------------------------------------------------
Range(q) == {q[i] : i \in 1 .. Len(q)}

IsPrefix(a, b) == Len(a) <= Len(b) /\ \A i \in 1 .. Len(a) : a[i] = b[i]

\* Positions of a caller inside stop()
StopPcs == {"stop_locked", "stop_notify", "stop_join", "stop_status"}

\* C1 (FIFO dispatch): the sequence of events the worker has popped is always
\* a prefix of the sequence in which events were appended to event_queue_:
\* nothing is reordered, duplicated or skipped.
C1_FifoDispatch == IsPrefix(dispatched, accepted)

\* Two events have been dispatched and a third has been appended behind them.
C1_Witness == Len(dispatched) >= 2 /\ Len(accepted) >= 3

\* C2 (sequential dispatch): at most one handle_* call is executing, under
\* every interleaving of start(), stop() and enqueue_event().
C2_SequentialDispatch == Cardinality(InHandler) <= 1

\* The second worker of the instance executes a handler while a caller is
\* inside stop().
C2_Witness ==
    /\ Cardinality(Created) = 2
    /\ InHandler # {}
    /\ \E t \in Callers : pc[t] = "stop_join"

\* A step in which enqueue_event finds running_ false: a caller's, or the
\* worker's through Loopback_transport::send.
EnqueueWhileStopped ==
    /\ ~running_
    /\ \/ \E t \in Callers : pc[t] = "enq_locked" /\ pc'[t] # "enq_locked"
       \/ \E w \in WorkerIds : wpc[w] = "h_send_transmit" /\ wpc'[w] # "h_send_transmit"

\* C3 (submitting while stopped is a silent no-op): a call of enqueue_event
\* that finds running_ false leaves the queue, the registry, busy_ and
\* running_ unchanged and fires no callback; the refused event is never
\* queued or dispatched later, so every registered peer comes from an
\* accepted PeerConnected event.
C3_StoppedSubmitIsNoOp ==
    /\ [][EnqueueWhileStopped =>
            UNCHANGED <<event_queue_, peers_, busy_, running_, accepted, dispatched,
                        handler_calls, status_log, peer_log, msg_log>>]_vars
    /\ [](dropped \cap (Range(event_queue_) \cup Range(dispatched)) = {})
    /\ [](\A p \in DOMAIN peers_ :
            \E e \in Range(dispatched) : e.type = "PeerConnected" /\ e.peer_id = p)

\* A PeerConnected event was refused before the first start(); the daemon
\* was started afterwards, its worker is idle and no peer is registered.
C3_Witness ==
    /\ \E e \in dropped : e.type = "PeerConnected" /\ e.tag = 1
    /\ running_
    /\ Waiting # {}
    /\ get_peer_count(peers_) = 0

\* C4 (events queued at shutdown are discarded): an event that was in the
\* queue when stop() cleared running_ is never dispatched afterwards, also
\* not after a later start().
C4_StaleNeverDispatched == stale \cap Range(dispatched) = {}

\* stop() has joined the worker and no worker has been started since.
StoppedAndJoined ==
    /\ \E t \in Callers : pc[t] = "stop_status"
    /\ Alive = {}

ShutdownsPopped == Cardinality({e \in Range(dispatched) : e.type = "Shutdown"})

\* C5 as stated (stress accounting): once stop() has joined the worker, the
\* number of handler invocations equals the number of events accepted.
C5_AllAcceptedHandled == StoppedAndJoined => handler_calls = Len(accepted)

\* C5, amended: once stop() has joined the worker, the number of handler
\* invocations equals the number of events accepted minus the events left in
\* the queue and minus the popped Shutdown events, which have no handler.
C5_Accounting ==
    StoppedAndJoined =>
        handler_calls + Len(event_queue_) + ShutdownsPopped = Len(accepted)

\* stop() has joined the worker after one event was handled and while
\* another accepted event is still queued.
C5_Witness ==
    /\ StoppedAndJoined
    /\ handler_calls >= 1
    /\ Len(event_queue_) >= 1

\* The step in which start() returns early, and the one in which stop() does.
StartNoOpStep(t) == pc[t] = "start_locked" /\ running_ /\ pc'[t] # "start_locked"
StopNoOpStep(t)  == pc[t] = "stop_locked" /\ ~running_ /\ pc'[t] # "stop_locked"

\* C6 (idempotent lifecycle calls): start() on a running daemon and stop() on
\* a stopped one return at once, change no state, create or join no thread
\* and fire no status callback; after start() on a running daemon exactly one
\* worker thread is alive.
C6_IdempotentLifecycle ==
    [][\A t \in Callers :
        /\ StartNoOpStep(t) =>
             /\ pc'[t] = "idle"
             /\ Cardinality(Alive') = 1
             /\ UNCHANGED <<running_, busy_, worker_thread_, event_queue_, transport_,
                            callbacks_, peers_, wpc, joined, aborted, history_vars>>
        /\ StopNoOpStep(t) =>
             /\ pc'[t] = StopReturnPc(frame[t])
             /\ UNCHANGED <<running_, busy_, worker_thread_, event_queue_, transport_,
                            callbacks_, peers_, wpc, joined, aborted, ntags, accepted,
                            dispatched, dropped, stale, handler_calls, status_log,
                            peer_log, msg_log>>]_vars

\* start() is called a second time in a row on a running daemon whose first
\* start() was notified through on_status.
C6_Witness ==
    /\ \E t \in Callers : pc[t] = "start_locked"
    /\ running_
    /\ Cardinality(Created) = 1
    /\ status_log = <<1>>

\* The step in which the caller's stop() returns.
StopReturnStep(t) == pc[t] \in {"stop_locked", "stop_status"} /\ pc'[t] \notin StopPcs

\* C7 (postcondition of stop()): when a stop() call returns, every worker
\* that existed when the call took the lock has left its loop and has been
\* joined, and running_ is false unless a later start() created a new worker.
C7_StopPostcondition ==
    [][\A t \in Callers :
        StopReturnStep(t) =>
            /\ stop_seen[t] \subseteq joined'
            /\ ~running_' \/ Created' # stop_seen[t]]_vars

\* C8 (start/stop races keep a single worker): no worker thread is created
\* while an earlier one is alive or not yet joined.
C8_SingleWorker == Cardinality(Created \ joined) <= 1

\* C9 (shutdown terminates): a stop() call that has begun can always go on
\* to return: no reachable state has a caller inside stop() and no step left
\* to take.
C9_StopNeverStuck == (\E t \in Callers : pc[t] \in StopPcs) => ENABLED Next

\* C10 (no dangling worker at destruction): when the object is released,
\* running_ is false, no worker is alive and worker_thread_ is not joinable.
C10_NoDanglingWorker ==
    destroyed => ~running_ /\ Alive = {} /\ ~joinable(worker_thread_)

\* Positions at which a caller thread invokes on_status, and at which a
\* worker invokes on_peer or on_message.
CallerCallbackPcs == {"start_status", "stop_status"}
WorkerCallbackPcs == {"h_connected_notify", "h_disconnected_notify", "h_data_notify"}

\* C11 (callbacks run lock-free): a thread that is about to invoke a
\* registered callback does not hold mutex_, so the callback can call
\* is_running(), is_busy(), enqueue_event() or set_transport() on the same
\* daemon.  (A worker gives mutex_ up in the step that pops the event and the
\* registry lock at the end of add_peer / remove_peer / the lookup.)
C11_CallbacksLockFree ==
    \A t \in Callers :
        pc[t] \in CallerCallbackPcs /\ callbacks_.on_status => mutex_ # CallerThread(t)

\* C12 (callback thread): a step that invokes on_message, on_peer or
\* on_status is a step of a worker thread, never of a thread that called
\* start(), stop(), enqueue_event() or a send operation.
C12_CallbacksOnWorker ==
    [][status_log' # status_log \/ peer_log' # peer_log \/ msg_log' # msg_log
          => pc' = pc]_vars

\* The arguments of the on_peer invocation made by a step, if it makes one.
PeerCallbackStep(w) == wpc[w] \in WorkerCallbackPcs /\ peer_log' # peer_log

\* C13 (mutate, then notify): when on_peer(p, u, true) is invoked the
\* registry contains p with uid u; when on_peer(p, _, false) is invoked the
\* registry does not contain p.
C13_MutateThenNotify ==
    [][\A w \in WorkerIds :
        PeerCallbackStep(w) =>
            LET a == peer_log'[Len(peer_log')] IN
            /\ a.peer_id = wevent[w].peer_id
            /\ a.connected = (wevent[w].type = "PeerConnected")
            /\ a.connected => /\ has_peer(peers_, a.peer_id)
                              /\ peers_[a.peer_id].uid = a.uid
                              /\ a.uid = wevent[w].peer_uid
            /\ ~a.connected => ~has_peer(peers_, a.peer_id)]_vars

\* on_peer has been invoked for a connect and then for a disconnect.
C13_Witness ==
    /\ Len(peer_log) = 2
    /\ peer_log[1].connected
    /\ ~peer_log[2].connected

\* C14 (observation after notification): a caller whose get_peer_count()
\* returned the count changed by a PeerConnected event reads it only after
\* on_peer has been invoked for that event (on_peer being registered).
C14_ObservedAfterNotify ==
    \A t \in Callers :
        pc[t] = "api_ret" /\ call[t].op = "get_peer_count" /\ call[t].count > 0
            /\ callbacks_.on_peer
        => \E i \in 1 .. Len(peer_log) : peer_log[i].connected

\* Two registries hold the same entries.
SameRegistry(a, b) == DOMAIN a = DOMAIN b /\ \A q \in DOMAIN a : a[q] = b[q]

\* C15 (connect / disconnect round trip): when PeerDisconnected(p) is
\* dispatched right after PeerConnected(p, u) and the registry did not hold p
\* before the connect, then at the on_peer(p, _, false) invocation the
\* registry is back to what it was before the connect (empty, if it was
\* empty) and the uid passed is u, although the entry is already removed.
C15_ConnectDisconnectRoundTrip ==
    [][\A w \in WorkerIds :
        LET n == Len(dispatched) IN
        /\ wpc[w] = "h_disconnected_notify" /\ wpc'[w] # wpc[w]
        /\ n >= 2
        /\ dispatched[n] = wevent[w]
        /\ dispatched[n - 1].type = "PeerConnected"
        /\ dispatched[n - 1].peer_id = wevent[w].peer_id
        /\ ~has_peer(reg_log[n - 1], wevent[w].peer_id)
        => /\ SameRegistry(peers_, reg_log[n - 1])
           /\ ~has_peer(peers_, wevent[w].peer_id)
           /\ get_peer_count(reg_log[n - 1]) = 0 => get_peer_count(peers_') = 0
           /\ wuid[w] = dispatched[n - 1].peer_uid
           /\ callbacks_.on_peer =>
                peer_log'[Len(peer_log')] =
                    [peer_id |-> wevent[w].peer_id, uid |-> dispatched[n - 1].peer_uid,
                     connected |-> FALSE]]_vars

\* A peer was connected to an empty registry and disconnected by the next
\* event; on_peer got the uid of the connect and the registry is empty again.
C15_Witness ==
    /\ Len(dispatched) = 2
    /\ dispatched[1].type = "PeerConnected"
    /\ dispatched[2].type = "PeerDisconnected"
    /\ Len(peer_log) = 2
    /\ peer_log[2] = [peer_id |-> dispatched[1].peer_id, uid |-> dispatched[1].peer_uid,
                      connected |-> FALSE]
    /\ get_peer_count(peers_) = 0

SendOps == {"send_message", "send_message_to_uid"}

\* The send call of t has returned (its result is in call[t]).
SendReturned(t) == pc[t] = "api_ret" /\ call[t].op \in SendOps

\* C16 (payload size boundary): a send call with a valid handle (and, for
\* send_message_to_uid, a non-null uid) that found the core running returns
\* INVALID_PARAM for a null message or length 0, OK for a message of exactly
\* MESHCORE_MAX_MESSAGE_SIZE bytes and MESSAGE_TOO_LONG for one byte more.
C16_PayloadSizeBoundary ==
    \A t \in Callers :
        /\ SendReturned(t) /\ call[t].core /\ call[t].ran
        /\ call[t].op = "send_message_to_uid" => ~call[t].uid.null
        => /\ call[t].message.null \/ call[t].len = 0
                => call[t].code = "MESHCORE_ERROR_INVALID_PARAM"
           /\ ~call[t].message.null /\ call[t].len = MESHCORE_MAX_MESSAGE_SIZE
                => call[t].code = "MESHCORE_OK"
           /\ ~call[t].message.null /\ call[t].len = MESHCORE_MAX_MESSAGE_SIZE + 1
                => call[t].code = "MESHCORE_ERROR_MESSAGE_TOO_LONG"

\* A message of exactly MESHCORE_MAX_MESSAGE_SIZE bytes was accepted by
\* meshcore_send_message on a running core and is in the queue.
C16_Witness ==
    \E t \in Callers :
        /\ SendReturned(t) /\ call[t].op = "send_message"
        /\ call[t].len = MESHCORE_MAX_MESSAGE_SIZE
        /\ call[t].code = "MESHCORE_OK"
        /\ \E i \in 1 .. Len(event_queue_) :
              event_queue_[i].tag = call[t].tag /\ event_queue_[i].data = MaxPayload

\* The step in which the send call of t returns an error.
SendRejectStep(t) ==
    /\ pc[t] # "api_ret" /\ pc'[t] = "api_ret"
    /\ call'[t].op \in SendOps
    /\ call'[t].code # "MESHCORE_OK"

\* C17 (rejected sends leave no trace): a send call that returns anything
\* but OK has not changed the queue or the registry, has not invoked the
\* transport, has fired no callback, and has built no event that could do
\* any of this later.
C17_RejectedSendNoTrace ==
    /\ [][\A t \in Callers :
            SendRejectStep(t) =>
                UNCHANGED <<event_queue_, peers_, running_, busy_, transport_, ntags, echoed,
                            accepted, dropped, dispatched, handler_calls, status_log,
                            peer_log, msg_log>>]_vars
    /\ [](\A t \in Callers :
            SendReturned(t) /\ call[t].code # "MESHCORE_OK" => call[t].tag = 0)

\* meshcore_send_message returned MESSAGE_TOO_LONG on a running daemon with
\* a loopback transport attached.
C17_Witness ==
    \E t \in Callers :
        /\ SendReturned(t)
        /\ call[t].code = "MESHCORE_ERROR_MESSAGE_TOO_LONG"
        /\ running_ /\ transport_ = "loopback"

\* C18 (accepted send is queued): when meshcore_send_message has returned OK,
\* a SendMessage event with the given peer_id and payload has been appended
\* to the event queue, also when another thread stops the daemon meanwhile.
C18_AcceptedSendQueued ==
    \A t \in Callers :
        SendReturned(t) /\ call[t].op = "send_message" /\ call[t].code = "MESHCORE_OK"
        => \E i \in 1 .. Len(accepted) :
              /\ accepted[i].tag = call[t].tag
              /\ accepted[i].type = "SendMessage"
              /\ accepted[i].peer_id = call[t].peer_id
              /\ accepted[i].data = StdString(call[t].message, call[t].len)

\* Tags an event built by Loopback_transport::send can have: set_transport
\* and start() come first, the event or registration that causes the send is
\* built before it, and each remaining call builds at most two events.
EchoTags == 2 .. 2 * (MaxCalls - 2)

\* The step of worker w in which Loopback_transport::send runs enqueue_event.
LoopbackSendStep(w) == wpc[w] = "h_send_transmit" /\ wpc'[w] # wpc[w]

\* The step of worker w in which handle_data_received invokes on_message.
MessageCallbackStep(w) == wpc[w] = "h_data_notify" /\ wpc'[w] # wpc[w] /\ callbacks_.on_message

\* The DataReceived event with tag k has been handled (and, if on_message is
\* registered, delivered to it).
Delivered(k) ==
    /\ \E i \in 1 .. Len(dispatched) : dispatched[i].tag = k
    /\ ~\E w \in InHandler : wevent[w].tag = k
    /\ callbacks_.on_message => \E j \in 1 .. Len(msg_log) : msg_log[j].tag = k

\* The event with tag k was built by Loopback_transport::send and queued.
EchoQueued(k) ==
    /\ \E x \in echoed : x.tag = k
    /\ \E i \in 1 .. Len(accepted) : accepted[i].tag = k

\* C19 (loopback round trip): with the loopback transport attached and the
\* daemon running, the dispatch of SendMessage(p, P) appends exactly one
\* DataReceived event for p with payload P; unless the daemon is stopped (or
\* the process ends) in the meantime, that event is dispatched later and
\* delivered to on_message(p, uid of p in the registry, P, its timestamp).
C19_LoopbackRoundTrip ==
    /\ [][\A w \in WorkerIds :
            LoopbackSendStep(w) /\ running_ =>
                LET e == accepted'[Len(accepted')] IN
                /\ wevent[w].type = "SendMessage"
                /\ accepted' = Append(accepted, e)
                /\ event_queue_' = Append(event_queue_, e)
                /\ e.type = "DataReceived"
                /\ e.peer_id = wevent[w].peer_id
                /\ e.data = wevent[w].data]_vars
    /\ [](\A i \in 1 .. Len(dispatched) :
            dispatched[i].type = "SendMessage" =>
                Cardinality({x \in echoed : x.of = dispatched[i].tag}) <= 1)
    /\ [][\A w \in WorkerIds :
            MessageCallbackStep(w) =>
                msg_log' = Append(msg_log,
                    [peer_id |-> wevent[w].peer_id,
                     uid |-> FindUid(peers_, wevent[w].peer_id),
                     data |-> wevent[w].data,
                     timestamp |-> wevent[w].timestamp,
                     tag |-> wevent[w].tag])]_vars
    /\ [](\A x \in echoed : x.tag \in EchoTags)
    /\ \A k \in EchoTags : EchoQueued(k) ~> (Delivered(k) \/ ~running_ \/ ~Live)

\* A SendMessage event went through the loopback transport and the
\* DataReceived event it caused has been delivered to on_message with the
\* same peer and payload.
C19_Witness ==
    \E i \in 1 .. Len(dispatched), x \in echoed :
        /\ dispatched[i].type = "SendMessage"
        /\ x.of = dispatched[i].tag
        /\ Delivered(x.tag)
        /\ \E j \in 1 .. Len(msg_log) :
              /\ msg_log[j].tag = x.tag
              /\ msg_log[j].peer_id = dispatched[i].peer_id
              /\ msg_log[j].data = dispatched[i].data

\* The step of worker w is part of the dispatch of a DataReceived event.
DataDispatchStep(w) ==
    wevent[w].type = "DataReceived" /\ wpc[w] \in HandlerPcs /\ wpc'[w] # wpc[w]

\* Events built so far, queued or refused.
Built == Range(accepted) \cup dropped

\* DataReceived events submitted by producers, and send operations made.
ProducerData == Cardinality({e \in Built : e.type = "DataReceived"
                                           /\ ~\E x \in echoed : x.tag = e.tag})
SendOperations == Cardinality({e \in Built : e.type = "SendMessage"})
                  + Cardinality({x \in echoed : x.of = 0})

NullSendStep(w)       == wpc[w] = "h_send_get" /\ wpc'[w] # wpc[w] /\ transport_ = "null"
NullDirectSendStep(t) == pc[t] = "uid_get" /\ pc'[t] # pc[t] /\ transport_ = "null"

\* C21 (absent transport): with transport_ null, the dispatch of a
\* SendMessage event and a direct send do nothing: no event is built, the
\* queue and the registry stay as they are, no callback fires; the worker
\* can go on and the next event it pops is the head of the queue.
C21_AbsentTransport ==
    /\ [][\A w \in WorkerIds :
            NullSendStep(w) =>
                /\ wpc'[w] = "w_after"
                /\ UNCHANGED <<event_queue_, peers_, running_, ntags, echoed, accepted, dropped,
                               status_log, peer_log, msg_log>>]_vars
    /\ [][\A t \in Callers :
            NullDirectSendStep(t) =>
                /\ pc'[t] = "api_ret"
                /\ UNCHANGED <<event_queue_, peers_, running_, ntags, echoed, accepted, dropped,
                               status_log, peer_log, msg_log, wpc>>]_vars
    /\ [](transport_ = "null" => echoed = {})
    /\ [](\A w \in WorkerIds :
            Live /\ wpc[w] = "w_after" /\ mutex_ = NoThread => ENABLED WorkerFinish(w))
    /\ [][\A w \in WorkerIds :
            /\ wpc[w] = "w_after" /\ wpc'[w] # wpc[w]
            /\ wevent[w].type = "SendMessage" /\ transport_ = "null"
            /\ running_ /\ event_queue_ # << >>
            => /\ wevent'[w] = Head(event_queue_)
               /\ dispatched' = Append(dispatched, Head(event_queue_))]_vars

\* Without a transport a SendMessage event was dispatched and then the event
\* queued behind it; nothing was built by a transport and no callback fired.
C21_Witness ==
    /\ transport_ = "null"
    /\ Len(dispatched) >= 2
    /\ dispatched[1].type = "SendMessage"
    /\ dispatched[2].type = "DataReceived"
    /\ echoed = {}
    /\ ntags = 2

DisconnectPcs == {"h_disconnected_find", "h_disconnected_remove", "h_disconnected_notify"}

\* A step of handle_peer_disconnected on worker w for a peer_id that is not
\* in the registry.
UnknownDisconnectStep(w) ==
    /\ wpc[w] \in DisconnectPcs /\ wpc'[w] # wpc[w]
    /\ ~has_peer(peers_, wevent[w].peer_id)

\* C22 (unknown disconnect): the dispatch of PeerDisconnected(p) for a p that
\* is not registered leaves the registry as it is and ends no process; the
\* handler runs to its end (finding no uid) and the worker can go on.
C22_UnknownDisconnect ==
    /\ [][\A w \in WorkerIds :
            UnknownDisconnectStep(w) =>
                /\ peers_' = peers_
                /\ aborted' = aborted
                /\ wpc[w] = "h_disconnected_find" => wpc'[w] = "h_disconnected_remove" /\ wuid'[w] = ""
                /\ wpc[w] = "h_disconnected_remove" => wpc'[w] = "h_disconnected_notify"
                /\ wpc[w] = "h_disconnected_notify" => wpc'[w] = "w_after"
                /\ UNCHANGED <<event_queue_, running_, accepted, dispatched>>]_vars
    /\ [](\A w \in WorkerIds :
            Live /\ wpc[w] \in DisconnectPcs /\ peers_mutex_ = NoThread => ENABLED WorkerStep(w))

\* PeerDisconnected(0) was dispatched while only peer 1 was registered; the
\* handler has returned and peer 1 is still registered.
C22_Witness ==
    /\ Len(dispatched) = 2
    /\ dispatched[1].type = "PeerConnected" /\ dispatched[1].peer_id = 1
    /\ dispatched[2].type = "PeerDisconnected" /\ dispatched[2].peer_id = 0
    /\ InHandler = {}
    /\ DOMAIN peers_ = {1}

PeersOfUid(t) == {p \in DOMAIN peers_ : peers_[p].uid = call[t].uid.str}

\* C24 (send by uid resolves through the registry): on a running daemon with
\* a transport set, when a peer (of any peer_id, 0 included) is registered
\* under the uid given, send_to_uid goes on to send_to_peer with the peer_id
\* of a peer registered under that uid; the transport's send is then invoked
\* once by the calling thread itself, for that peer_id and the payload given,
\* and no SendMessage event is built.
C24_SendByUidResolves ==
    /\ [][\A t \in Callers :
            /\ pc[t] = "uid_find" /\ pc'[t] # pc[t]
            /\ running_ /\ transport_ # "null"
            /\ PeersOfUid(t) # {}
            => /\ pc'[t] = "uid_get"
               /\ call'[t].peer_id \in PeersOfUid(t)]_vars
    /\ [][\A t \in Callers :
            pc[t] = "uid_get" /\ pc'[t] # pc[t] /\ transport_ # "null"
            => pc'[t] = "uid_transmit"]_vars
    /\ [][\A t \in Callers :
            pc[t] = "uid_transmit" /\ pc'[t] # pc[t]
            => /\ echoed' = echoed \cup {Echo(ntags', 0)}
               /\ ntags' = ntags + 1
               /\ wpc' = wpc
               /\ \A e \in (Range(accepted') \cup dropped') \ (Range(accepted) \cup dropped) :
                     /\ e.type = "DataReceived"
                     /\ e.tag = ntags'
                     /\ e.peer_id = call[t].peer_id
                     /\ e.data = StdString(call[t].message, call[t].len)]_vars

\* Positions of a worker from the pop of an event to the end of its handling
BusyPcs == HandlerPcs \cup {"w_after", "w_shutdown"}

\* C25 (busy flag): busy_ is true exactly while a worker has popped an event
\* and has not finished handling it; so it is false while the worker waits
\* on cv_ and while no worker has been started or the worker has exited,
\* whatever the type of the events that were accepted.
C25_BusyFlag == busy_ <=> \E w \in WorkerIds : wpc[w] \in BusyPcs

\* The timestamp of e was assigned by enqueue_event (no clock reading equals
\* ProducerStamp).
QueueAssigned(e) == e.timestamp # ProducerStamp

\* The timestamps enqueue_event assigned do not decrease along q.
NonDecreasing(q) ==
    \A i, j \in 1 .. Len(q) :
        i < j /\ QueueAssigned(q[i]) /\ QueueAssigned(q[j]) => q[i].timestamp <= q[j].timestamp

\* C26 (timestamp fixed at enqueue): an event submitted with timestamp 0 gets
\* the clock reading taken inside enqueue_event in the step that appends it,
\* an event submitted with another timestamp keeps it; on_message is passed
\* the timestamp the event had when it was appended, whatever the clock reads
\* by then; and as the clock does not go back, the assigned timestamps do not
\* decrease in queue order, which is the dispatch order.
C26_TimestampAtEnqueue ==
    /\ [][\A t \in Callers :
            pc[t] = "enq_locked" /\ pc'[t] # pc[t] /\ running_ =>
                \A in \in EventsOf(args.peer_ids, args.uids, args.stamps) :
                    EnqueueBody(t, in) =>
                        LET e == accepted'[Len(accepted')] IN
                        /\ accepted' = Append(accepted, e)
                        /\ event_queue_' = Append(event_queue_, e)
                        /\ e.timestamp = IF in.timestamp = 0 THEN clock' ELSE in.timestamp]_vars
    /\ [][Len(accepted') > Len(accepted) =>
            LET e == accepted'[Len(accepted')] IN
            /\ e.timestamp \in {clock', ProducerStamp}
            /\ clock' >= clock]_vars
    /\ [][\A w \in WorkerIds :
            MessageCallbackStep(w) =>
                \E i \in 1 .. Len(accepted) :
                    /\ accepted[i].tag = wevent[w].tag
                    /\ msg_log'[Len(msg_log')].timestamp = accepted[i].timestamp]_vars
    /\ [](NonDecreasing(accepted) /\ NonDecreasing(event_queue_) /\ NonDecreasing(dispatched))

\* Two events were stamped by enqueue_event at different readings of the
\* clock; the first has been delivered to on_message with the earlier one.
C26_Witness ==
    /\ Len(accepted) = 2
    /\ accepted[1].timestamp = 1 /\ accepted[2].timestamp = 2
    /\ clock = 2
    /\ Len(msg_log) >= 1
    /\ msg_log[1].tag = accepted[1].tag
    /\ msg_log[1].timestamp = 1

\* The send of worker w or of caller t began after the last set_transport
\* returned.
FreshDispatch(w) == <<"w", w>> \in tset.since
FreshSend(t)     == <<"t", t>> \in tset.since

Members == {"on_message", "on_status", "on_peer"}

\* This step calls the host function x.
HostInvoked(x) == host'.log = Append(host.log, x)

\* This step is where the daemon invokes member x of callbacks_, if set.
InvocationOf(x) ==
    CASE x = "on_message" -> \E w \in WorkerIds : wpc[w] = "h_data_notify" /\ wpc'[w] # wpc[w]
      [] x = "on_peer"    -> \E w \in WorkerIds :
                                /\ wpc[w] \in {"h_connected_notify", "h_disconnected_notify"}
                                /\ wpc'[w] # wpc[w]
      [] x = "on_status"  -> \E t \in Callers :
                                /\ pc[t] \in CallerCallbackPcs
                                /\ pc'[t] # pc[t]

\* C28 (registration replaces wholesale): once meshcore_set_callbacks(core,
\* cb) has returned, a step that reaches a callback invokes the host
\* function for it exactly when cb has that member: a member that is null in
\* cb is not invoked although an earlier registration supplied it, and after
\* NULL or an all-null struct no host function is invoked.  (Exactly: unless
\* Daemon::set_callbacks was called directly since.)
C28_RegistrationReplaces ==
    /\ [][\A x \in Members :
            HostInvoked(x) /\ ~Registering => ~host.last.null /\ host.last[x]]_vars
    /\ [][\A x \in Members :
            /\ InvocationOf(x) /\ ~Registering
            /\ meshcore.adapted /\ ~host.last.null /\ host.last[x]
            => HostInvoked(x)]_vars
    /\ [](~Registering =>
            \A x \in Members : meshcore.callbacks[x] = (~host.last.null /\ host.last[x]))

\* After a registration of all three functions and then of NULL, a
\* DataReceived event reached the lambda that is still in callbacks_, and no
\* host function has been called.
C28_Witness ==
    /\ host.last.null
    /\ meshcore.adapted /\ callbacks_.on_message
    /\ Len(msg_log) = 1
    /\ host.log = << >>

\* C29 (peer count when not running): a get_peer_count call made while
\* running_ is false returns 0, whatever was registered before stop().
C29_PeerCountWhenStopped ==
    [][\A t \in Callers :
        /\ pc[t] = "idle" /\ pc'[t] = "api_ret"
        /\ call'[t].op = "get_peer_count"
        /\ ~running_
        => call'[t].count = 0]_vars

PeerEvents == {"PeerConnected", "PeerDisconnected"}

\* Worker w has popped a PeerConnected or PeerDisconnected event and has not
\* yet changed the registry for it.
BeforeMutation(w) == wpc[w] \in {"h_connected_add", "h_disconnected_find", "h_disconnected_remove"}

\* Positions in dispatched of the events for peer p whose handler has changed
\* the registry
AppliedFor(p) ==
    {i \in 1 .. Len(dispatched) :
        /\ dispatched[i].type \in PeerEvents
        /\ dispatched[i].peer_id = p
        /\ ~\E w \in WorkerIds : BeforeMutation(w) /\ wevent[w].tag = dispatched[i].tag}

\* The most recent of them
LastFor(p) == dispatched[CHOOSE i \in AppliedFor(p) : \A j \in AppliedFor(p) : j <= i]

UidScanStep(t) == pc[t] = "uid_find" /\ pc'[t] # pc[t]

\* The result codes of the send functions
SendCodes ==
    {"MESHCORE_OK", "MESHCORE_ERROR_UNKNOWN", "MESHCORE_ERROR_NOT_RUNNING",
     "MESHCORE_ERROR_INVALID_PARAM", "MESHCORE_ERROR_MESSAGE_TOO_LONG"}

\* C31 (send to an unknown uid): a meshcore_send_message_to_uid call that
\* found the daemon running and its arguments valid, for a uid under which no
\* peer is registered when send_to_uid scans the registry, returns
\* MESHCORE_OK from that scan: it does not go on to send_to_peer, the
\* transport builds no event, and the queue and the registry are as before.
\* No send call returns a code other than the five above.
C31_UnknownUidIsNoOp ==
    /\ [][\A t \in Callers :
            UidScanStep(t) /\ PeersOfUid(t) = {} =>
                /\ pc'[t] = "api_ret"
                /\ call'[t] = [call[t] EXCEPT !.code = "MESHCORE_OK"]
                /\ call[t].ran /\ call[t].tag = 0
                /\ UNCHANGED <<event_queue_, peers_, echoed, accepted, dropped, ntags, wpc>>]_vars
    /\ [][\A t \in Callers :
            pc[t] = "idle" /\ pc'[t] = "uid_lock" =>
                /\ running_
                /\ UNCHANGED <<event_queue_, peers_, echoed, accepted, dropped, ntags, wpc>>]_vars
    /\ [](\A t \in Callers : pc[t] = "api_ret" /\ call[t].op \in SendOps => call[t].code \in SendCodes)

\* A send to the uid "u" has returned MESHCORE_OK without a send while a
\* transport is set and the only registered peer has the uid "v".
C31_Witness ==
    \E t \in Callers :
        /\ pc[t] = "api_ret"
        /\ call[t].op = "send_message_to_uid"
        /\ call[t].code = "MESHCORE_OK" /\ call[t].ran /\ call[t].tag = 0
        /\ call[t].uid.str = "u"
        /\ running_ /\ transport_ # "null"
        /\ DOMAIN peers_ = {1} /\ peers_[1].uid = "v"
        /\ echoed = {}

\* Tags an accepted event can have: start() comes first and each remaining
\* call builds at most two events.
EventTags == 1 .. 2 * (MaxCalls - 1)

\* enqueue_event appended the event with tag k to the queue.
Appended(k) == \E i \in 1 .. Len(accepted) : accepted[i].tag = k

\* worker_loop popped the event with tag k.
Popped(k) == \E i \in 1 .. Len(dispatched) : dispatched[i].tag = k

\* A thread is inside stop(), called directly or by the destructor.
StopEntered == closing \/ \E t \in Callers : pc[t] \in StopPcs

\* C32 (progress while running): in a behaviour in which stop() is never
\* called, every thread that can run is scheduled and so every handler
\* returns, each event enqueue_event appended to the queue is popped by
\* worker_loop later.
C32_AppendedIsDispatched ==
    <>StopEntered \/ \A k \in EventTags : Appended(k) ~> Popped(k)

\* The same without an in-band Shutdown event: no stop() and no Shutdown event
\* popped.
ProgressWithoutShutdown ==
    <>(StopEntered \/ ShutdownsPopped > 0) \/ \A k \in EventTags : Appended(k) ~> Popped(k)

\* The on_peer invocation j reports a disconnect, and invocation i the
\* connect it answers: same peer_id and uid, no disconnect of that peer_id
\* between the two.
PairedWith(i, j) ==
    /\ i < j
    /\ peer_log[i].connected
    /\ peer_log[i].peer_id = peer_log[j].peer_id
    /\ peer_log[i].uid = peer_log[j].uid
    /\ \A k \in (i + 1) .. (j - 1) :
          peer_log[k].peer_id = peer_log[j].peer_id => peer_log[k].connected

\* The step of worker w in which handle_peer_disconnected invokes on_peer.
DisconnectCallbackStep(w) ==
    wpc[w] = "h_disconnected_notify" /\ wpc'[w] # wpc[w] /\ peer_log' # peer_log

\* C33 (disconnect notifications are paired): every on_peer(p, uid, false)
\* invocation comes after an on_peer(p, uid, true) invocation for the same
\* peer_id with no other on_peer(p, _, false) between them, and none is made
\* for a peer_id that was not in the registry when its PeerDisconnected event
\* was popped.
C33_DisconnectsPaired ==
    /\ [](\A j \in 1 .. Len(peer_log) :
            ~peer_log[j].connected => \E i \in 1 .. Len(peer_log) : PairedWith(i, j))
    /\ [][\A w \in WorkerIds :
            DisconnectCallbackStep(w) =>
                \E i \in 1 .. Len(dispatched) :
                    /\ dispatched[i].tag = wevent[w].tag
                    /\ has_peer(reg_log[i], wevent[w].peer_id)]_vars

\* Positions of a caller inside start() or stop()
LifecyclePcs == {"start_locked", "start_status"} \cup StopPcs

\* The codes passed to on_status so far are 1, 0, 1, 0, ...
StatusAlternates == \A i \in 1 .. Len(status_log) : status_log[i] = i % 2

\* While no thread is inside start() or stop(), the last code passed to
\* on_status tells whether the daemon is running.
StatusTracksRunning ==
    (\A t \in Callers : pc[t] \notin LifecyclePcs) => (running_ <=> Len(status_log) % 2 = 1)

\* C34 (status notifications mirror the lifecycle): with on_status
\* registered, the codes it receives alternate 1, 0, 1, 0, ..., one for each
\* change of running_ and in the order of these changes, also when start()
\* and stop() are called from different threads at the same time.
C34_StatusMirrorsLifecycle ==
    callbacks_.on_status => StatusAlternates /\ StatusTracksRunning

\* Caller t holds the queue mutex mutex_, the registry mutex peers_mutex_.
HoldsQueue(t) == mutex_ = CallerThread(t)
HoldsRegistry(t) == peers_mutex_ = CallerThread(t)

\* Caller t can begin an enqueue_event, a get_peer_count call.
CanCall(t) == Live /\ ~closing /\ calls_left > 0 /\ pc[t] = "idle"

\* C35 (lock ordering): no thread holds mutex_ and peers_mutex_ together; a
\* thread that holds one of them never waits for the other (its next step
\* can be taken whoever holds the other one), so the two cannot form a
\* lock-order cycle.  While a thread holds peers_mutex_ for the uid scan of
\* send_to_uid, enqueue_event can take mutex_ when it is free; while a thread
\* is inside the locked block of enqueue_event, get_peer_count and the scan
\* of send_to_uid can take peers_mutex_ when it is free.
C35_LockOrdering ==
    /\ \A t \in Callers : ~(HoldsQueue(t) /\ HoldsRegistry(t))
    /\ \A t \in Callers : Live /\ HoldsRegistry(t) => ENABLED CallerContinue(t)
    /\ \A t \in Callers : Live /\ HoldsQueue(t) => ENABLED CallerContinue(t)
    /\ \A t \in Callers :
          CanCall(t) /\ peers_mutex_ # NoThread /\ mutex_ = NoThread => ENABLED EnqueueLock(t)
    /\ \A t, u \in Callers :
          pc[u] = "enq_locked" /\ peers_mutex_ = NoThread =>
              /\ CanCall(t) => ENABLED GetPeerCount(t)
              /\ Live /\ pc[t] = "uid_lock" => ENABLED SendToUidLock(t)

\* One caller holds peers_mutex_ inside the scan of send_to_uid while the
\* other holds mutex_ inside enqueue_event, on a running daemon.
C35_Witness ==
    \E t, u \in Callers :
        /\ HoldsRegistry(t) /\ pc[t] = "uid_find"
        /\ HoldsQueue(u) /\ pc[u] = "enq_locked"
        /\ running_ /\ Live

\* A step that writes callbacks_: Daemon::set_callbacks, called directly or
\* by setup_daemon_callbacks.
CallbacksWriteStep ==
    /\ calls_left' # calls_left \/ Registering
    /\ \E t \in Callers :
          \/ \E cb \in CallbackSets : SetCallbacks(t, cb)
          \/ MeshcoreSetCallbacksApply(t)

\* C36 (the callback set is accessed race-free): no write of callbacks_ by
\* set_callbacks() is made while a handler on the worker thread, or stop() on
\* a caller thread, is about to read callbacks_ outside mutex_; and a caller
\* that reads callbacks_ in start() or stop() holds mutex_ when it does.
C36_CallbacksRaceFree ==
    /\ [][CallbacksWriteStep => ~CallbacksRead]_vars
    /\ [](\A t \in Callers : pc[t] \in CallerCallbackPcs => HoldsQueue(t))

\* The overlap alone: no write of callbacks_ while a read outside mutex_ is
\* about to be made.
NoWriteDuringRead == [][CallbacksWriteStep => ~CallbacksRead]_vars

====
